---- MODULE Spec2Model ----
(***************************************************************************)
(* Model of the forecast-and-optimization backend:                         *)
(*   ForecastEngine   (app/services/forecast_engine.py)                    *)
(*   ForecastService  (app/services/forecast_service.py)                   *)
(*   MockDAC          (app/schemas/dac_interfaces.py)                      *)
(*   DataAccessGateway (data-access-and-control/.../dac_repository.py)     *)
(*                                                                         *)
(* Strings the code inspects character by character (the horizon) are      *)
(* sequences of one-character strings.  Time is counted in ticks,          *)
(* TicksPerHour ticks to the hour; tick 0 is a Monday 00:00.  Floating     *)
(* point quantities are fixed point: measurement and forecast values in    *)
(* hundreds of the metric's unit (TLC integers are 32 bit), confidences in  *)
(* thousandths, accuracies in 1/6000.                                      *)
(***************************************************************************)
EXTENDS Integers, Sequences, FiniteSets, TLC

(* ------------------------------ bounds --------------------------------- *)

\* longest horizon string drawn as an input of the engine
MaxLen == 3
\* resolution of the clock
TicksPerHour == 2
\* magnitude of a non-zero random perturbation
NoiseMag == 900

(* ------------------------- program constants --------------------------- *)

\* forecast_engine.py:84  training_days = 30
TrainingDays == 30
\* forecast_engine.py:96  len(measurements) < 24 * 7
MinPoints == 168
\* forecast_engine.py:109 "LSTM" if hours_ahead > 24
LongHorizon == 24
\* forecast_engine.py:149 / forecast_service.py:145 default horizon
DefaultHours == 24
\* forecast_engine.py:190, 214 rolling / tail window
Window == 24

(* ------------------------------ helpers -------------------------------- *)

Max(a, b) == IF a >= b THEN a ELSE b

RECURSIVE SumSeq(_)
SumSeq(s) == IF s = <<>> THEN 0 ELSE s[1] + SumSeq(Tail(s))

SetMax(S) == CHOOSE x \in S : \A y \in S : y <= x

SetMin(S) == CHOOSE x \in S : \A y \in S : x <= y

\* all sequences over S of length at most n
SeqsUpTo(S, n) == UNION {[1..k -> S] : k \in 0..n}

(* ------------------------- python str / int ---------------------------- *)

\* the characters horizon strings are drawn from
Alphabet == {"-", "1", "2", "H", "D", "d", "x"}

Digits == {"1", "2", "4"}

DigitVal(c) == IF c = "1" THEN 1 ELSE IF c = "2" THEN 2 ELSE 4

\* str.upper() on one character of Alphabet
UpperChar(c) == IF c = "d" THEN "D" ELSE IF c = "x" THEN "X" ELSE c

\* str.upper()
Upper(s) == [i \in 1..Len(s) |-> UpperChar(s[i])]

\* str.endswith(c) for a one-character suffix
EndsWith(s, c) == Len(s) >= 1 /\ s[Len(s)] = c

\* s[:-1]
DropLast(s) == SubSeq(s, 1, Len(s) - 1)

RECURSIVE DigitsVal(_)
DigitsVal(s) == IF s = <<>> THEN 0
                ELSE 10 * DigitsVal(DropLast(s)) + DigitVal(s[Len(s)])

AllDigits(s) == Len(s) >= 1 /\ \A i \in 1..Len(s) : s[i] \in Digits

\* int(s): a record [ok, val]; ok = FALSE is python's ValueError.
\* Over Alphabet the literals int() accepts are an optional "-" and digits.
PyInt(s) ==
    IF AllDigits(s) THEN [ok |-> TRUE, val |-> DigitsVal(s)]
    ELSE IF Len(s) >= 2 /\ s[1] = "-" /\ AllDigits(Tail(s))
         THEN [ok |-> TRUE, val |-> 0 - DigitsVal(Tail(s))]
         ELSE [ok |-> FALSE, val |-> 0]

(* --------------------- ForecastEngine._parse_horizon ------------------- *)

\* [ok, hours, err]: the hours-ahead count, or the ValueError int() raises
parse_horizon(horizon) ==
    LET h == Upper(horizon)
    IN  IF EndsWith(h, "H")
        THEN LET n == PyInt(DropLast(h))
             IN  IF n.ok THEN [ok |-> TRUE, hours |-> n.val, err |-> "none"]
                         ELSE [ok |-> FALSE, hours |-> 0, err |-> "ValueError"]
        ELSE IF EndsWith(h, "D")
        THEN LET n == PyInt(DropLast(h))
             IN  IF n.ok THEN [ok |-> TRUE, hours |-> n.val * 24, err |-> "none"]
                         ELSE [ok |-> FALSE, hours |-> 0, err |-> "ValueError"]
        ELSE [ok |-> TRUE, hours |-> DefaultHours, err |-> "none"]

(* ------------------------------ time ----------------------------------- *)

\* index of the hour a tick lies in
HourIdx(t) == t \div TicksPerHour

\* datetime.hour
HourOfDay(t) == HourIdx(t) % 24

\* datetime.weekday(): Monday is 0
Weekday(t) == (HourIdx(t) \div 24) % 7

\* timedelta(hours=h) in ticks
Hours(h) == h * TicksPerHour

(* -------------------- ForecastEngine._preprocess_data ------------------ *)

RECURSIVE SumValues(_, _, _)
\* sum of ms[k].value over lo <= k <= hi
SumValues(ms, lo, hi) ==
    IF lo > hi THEN 0 ELSE ms[hi].value + SumValues(ms, lo, hi - 1)

RECURSIVE PrevFull(_, _)
\* the last non-empty hourly bin at or before h
PrevFull(hrs, h) == IF h \in hrs THEN h ELSE PrevFull(hrs, h - 1)

RECURSIVE NextFull(_, _)
\* the first non-empty hourly bin at or after h
NextFull(hrs, h) == IF h \in hrs THEN h ELSE NextFull(hrs, h + 1)

\* resample('1h').mean() then interpolate(method='time'), for the bin of hour h.
\* ms is ordered by timestamp ascending (the measurement source sorts by ts).
BinValue(ms, hrs, h) ==
    LET Mean(x) == LET idx == {k \in 1..Len(ms) : HourIdx(ms[k].timestamp) = x}
                       lo  == SetMin(idx)
                       hi  == SetMax(idx)
                   IN  SumValues(ms, lo, hi) \div (hi - lo + 1)
    IN  IF h \in hrs THEN Mean(h)
        ELSE LET hp == PrevFull(hrs, h)
                 hn == NextFull(hrs, h)
             IN  Mean(hp) + ((Mean(hn) - Mean(hp)) * (h - hp)) \div (hn - hp)

\* the hourly frame the predictors read: the label of its last row and its
\* last Window values ('value' column; rolling_mean_24h is their mean)
preprocess_data(ms) ==
    LET hrs   == {HourIdx(ms[k].timestamp) : k \in 1..Len(ms)}
        first == HourIdx(ms[1].timestamp)
        last  == HourIdx(ms[Len(ms)].timestamp)
        lo    == Max(first, last - (Window - 1))
    IN  [last_index |-> Hours(last),
         tail       |-> [i \in 1..(last - lo + 1) |-> BinValue(ms, hrs, lo + i - 1)]]

\* np.mean over the tail
TailMean(data) == SumSeq(data.tail) \div Len(data.tail)

\* np.std over the tail is 0 exactly when all its values are equal
TailStdZero(data) == \A i \in 1..Len(data.tail) : data.tail[i] = data.tail[1]

(* ------------------------ random perturbation -------------------------- *)

NoisePatterns == {"zero", "minus", "alternate"}

\* the draw np.random.normal(0, scale) makes at step i: 0 when scale = 0,
\* otherwise any real; the patterns pick large and small draws
Noise(pattern, i, scaleZero) ==
    IF scaleZero \/ pattern = "zero" THEN 0
    ELSE IF pattern = "minus" THEN 0 - NoiseMag
    ELSE IF i % 2 = 0 THEN 0 - NoiseMag ELSE NoiseMag

TiePatterns == {"up", "down", "mixed"}

\* round(num / den, 0) for den > 0; a value exactly halfway goes up or down
\* with the binary representation of the float, as the tie pattern says
RoundDiv(num, den, tie, i) ==
    LET f == num \div den
        r == 2 * (num - f * den)
    IN  IF r > den THEN f + 1
        ELSE IF r < den THEN f
        ELSE IF tie = "up" \/ (tie = "mixed" /\ i % 2 = 0) THEN f + 1 ELSE f

(* ------------------- ForecastEngine._forecast_with_lstm ---------------- *)

\* the decay of the confidence reversed: 0.80 + (i / hours_ahead) * 0.15
lstm_confidence_Rising(i, hours_ahead, tie) ==
    RoundDiv(800 * hours_ahead + 150 * i, hours_ahead, tie, i)

\* confidence of step i, in thousandths: round(0.95 - (i / hours_ahead) * 0.15, 3)
lstm_confidence(i, hours_ahead, tie) ==
    RoundDiv(950 * hours_ahead - 150 * i, hours_ahead, tie, i)

\* max(0, predicted_value) dropped
lstm_point_NoFloor(last_index, mean_value, std_zero, i, hours_ahead, noise, tie) ==
    LET t  == last_index + Hours(i + 1)
        tf == IF 8 <= HourOfDay(t) /\ HourOfDay(t) <= 18 THEN 120 ELSE 80
        df == IF Weekday(t) \in {5, 6} THEN 85 ELSE 100
        pv == (mean_value * tf * df) \div 10000 + Noise(noise, i, std_zero)
    IN  [timestamp |-> t, value |-> pv,
         confidence |-> lstm_confidence(i, hours_ahead, tie)]

\* the point appended at step i (0-based) of the loop; current_time starts at
\* data.index[-1] + 1 hour and advances one hour a step
lstm_point(last_index, mean_value, std_zero, i, hours_ahead, noise, tie) ==
    LET t  == last_index + Hours(i + 1)
        tf == IF 8 <= HourOfDay(t) /\ HourOfDay(t) <= 18 THEN 120 ELSE 80
        df == IF Weekday(t) \in {5, 6} THEN 85 ELSE 100
        pv == (mean_value * tf * df) \div 10000 + Noise(noise, i, std_zero)
    IN  [timestamp |-> t, value |-> Max(0, pv),
         confidence |-> lstm_confidence(i, hours_ahead, tie)]

\* [ok, err, values, accuracy]; range(hours_ahead) is empty for hours_ahead <= 0
forecast_with_lstm(data, hours_ahead, noise, tie) ==
    LET mean_value == TailMean(data)
        std_zero   == TailStdZero(data)
    IN  [ok |-> TRUE, err |-> "none",
         values |-> [k \in 1..Max(0, hours_ahead) |->
                        lstm_point(data.last_index, mean_value, std_zero,
                                   k - 1, hours_ahead, noise, tie)],
         accuracy |-> 5280 - 6 * hours_ahead]

(* ------------------ ForecastEngine._forecast_with_xgboost -------------- *)

\* confidence of step i, in thousandths: round(0.90 - (i / hours_ahead) * 0.20, 3)
xgboost_confidence(i, hours_ahead, tie) ==
    RoundDiv(900 * hours_ahead - 200 * i, hours_ahead, tie, i)

\* the point appended at step i (0-based) of the loop
xgboost_point(last_index, rolling_mean, i, hours_ahead, noise, tie) ==
    LET t  == last_index + Hours(i + 1)
        hf == IF 8 <= HourOfDay(t) /\ HourOfDay(t) <= 18 THEN 130 ELSE 70
        wf == IF Weekday(t) \in {5, 6} THEN 80 ELSE 100
        pv == (rolling_mean * hf * wf) \div 10000 + Noise(noise, i, rolling_mean = 0)
    IN  [timestamp |-> t, value |-> Max(0, pv),
         confidence |-> xgboost_confidence(i, hours_ahead, tie)]

\* np.random.normal raises ValueError for a negative scale (rolling_mean * 0.05)
forecast_with_xgboost(data, hours_ahead, noise, tie) ==
    LET rolling_mean == TailMean(data)
    IN  IF hours_ahead >= 1 /\ rolling_mean < 0
        THEN [ok |-> FALSE, err |-> "ValueError", values |-> <<>>, accuracy |-> 0]
        ELSE [ok |-> TRUE, err |-> "none",
              values |-> [k \in 1..Max(0, hours_ahead) |->
                             xgboost_point(data.last_index, rolling_mean,
                                           k - 1, hours_ahead, noise, tie)],
              accuracy |-> 5100 - 5 * hours_ahead]

(* --------------------- ForecastEngine.validate_results ----------------- *)

\* accuracy_threshold = 0.85, in 1/6000
AccuracyThreshold == 5100

validate_results(values, accuracy) ==
    LET vs == [k \in 1..Len(values) |-> values[k].value]
    IN  IF accuracy < AccuracyThreshold THEN FALSE
        ELSE IF \E k \in 1..Len(vs) : vs[k] < 0 THEN FALSE
        ELSE IF \E k \in 1..Len(vs) : vs[k] * Len(vs) > 5 * SumSeq(vs) THEN FALSE
        ELSE TRUE

(* --------------------- ForecastEngine.generate_forecast ---------------- *)

ModelTypes == {"auto", "LSTM", "XGBoost", "Prophet"}

NoData == [last_index |-> 0, tail |-> <<>>]

\* the length check dropped
check_and_preprocess_NoMinimum(ms) ==
    [ok |-> TRUE, err |-> "none", data |-> preprocess_data(ms)]

\* step 2 (the length check) and step 3: [ok, err, data]
check_and_preprocess(ms) ==
    IF Len(ms) < MinPoints
    THEN [ok |-> FALSE, err |-> "InsufficientDataError", data |-> NoData]
    ELSE [ok |-> TRUE, err |-> "none", data |-> preprocess_data(ms)]

\* a quality gate that aborts: a failed validation raises ForecastError
abort_on_invalid(out) ==
    IF out.is_valid THEN out ELSE [out EXCEPT !.ok = FALSE, !.err = "ForecastError"]

\* step 6 after validate_results: a failed validation prints a warning and
\* the forecast is returned as it is
warn_on_invalid(out) == out

\* steps 4-6: model selection, prediction, validation; strategy is the branch
\* of step 5 that ran, model_used the label returned
select_and_predict(pre, hours_ahead, model_type, noise, tie) ==
    IF ~pre.ok
    THEN [ok |-> FALSE, err |-> pre.err, values |-> <<>>,
          accuracy |-> 0, model_used |-> "none", is_valid |-> FALSE,
          strategy |-> "none"]
    ELSE LET mt == IF model_type = "auto"
                   THEN (IF hours_ahead > LongHorizon THEN "LSTM" ELSE "XGBoost")
                   ELSE model_type
             f  == IF mt = "LSTM"
                   THEN forecast_with_lstm(pre.data, hours_ahead, noise, tie)
                   ELSE forecast_with_xgboost(pre.data, hours_ahead, noise, tie)
         IN  IF ~f.ok
             THEN [ok |-> FALSE, err |-> f.err, values |-> <<>>,
                   accuracy |-> 0, model_used |-> "none", is_valid |-> FALSE,
          strategy |-> "none"]
             ELSE warn_on_invalid(
                    [ok |-> TRUE, err |-> "none", values |-> f.values,
                     accuracy |-> f.accuracy, model_used |-> mt,
                     is_valid |-> validate_results(f.values, f.accuracy),
                     strategy |-> IF mt = "LSTM" THEN "LSTM" ELSE "XGBoost"])

\* steps 2-6, after the measurement source has answered with ms
generate_after_fetch(hours_ahead, model_type, ms, noise, tie) ==
    select_and_predict(check_and_preprocess(ms), hours_ahead, model_type, noise, tie)

\* the whole call against a measurement source that answers with ms
generate_forecast(horizon, model_type, ms, noise, tie) ==
    LET p == parse_horizon(horizon)
    IN  IF ~p.ok
        THEN [ok |-> FALSE, err |-> p.err, values |-> <<>>,
              accuracy |-> 0, model_used |-> "none", is_valid |-> FALSE,
          strategy |-> "none"]
        ELSE generate_after_fetch(p.hours, model_type, ms, noise, tie)

(* ----------------------- measurement histories ------------------------- *)

ValuePatterns == {"day_night", "flat", "zero", "negative"}

\* the value a history of the given pattern holds at tick t
PatternValue(pattern, t) ==
    IF pattern = "day_night"
    THEN (IF 8 <= HourOfDay(t) /\ HourOfDay(t) <= 18 THEN 500 ELSE 300)
    ELSE IF pattern = "flat" THEN 400
    ELSE IF pattern = "zero" THEN 0
    ELSE 0 - 10

\* n points ending at tick last, step ticks apart, ordered by timestamp
Measurements(n, last, step, pattern) ==
    [k \in 1..n |-> [timestamp |-> last - (n - k) * step,
                     value     |-> PatternValue(pattern, last - (n - k) * step)]]

\* a tick far enough from 0 for 30 days of history to lie after it
Epoch == (TrainingDays + 1) * 24 * TicksPerHour

\* the answers a measurement source gives to the engine's query
Histories ==
    { [n |-> 167, last |-> Epoch,     step |-> TicksPerHour,     pattern |-> "flat"],
      [n |-> 168, last |-> Epoch + 1, step |-> TicksPerHour,     pattern |-> "day_night"],
      [n |-> 168, last |-> Epoch,     step |-> 2 * TicksPerHour, pattern |-> "negative"],
      [n |-> 169, last |-> Epoch + 1, step |-> 1,                pattern |-> "zero"] }

HistoryOf(h) == Measurements(h.n, h.last, h.step, h.pattern)

\* steps 2-3 of generate_forecast on each of these answers
HistoryFrames == [h \in Histories |-> check_and_preprocess(HistoryOf(h))]

(* ------------------------------ state ---------------------------------- *)

VARIABLES
    e_pc,           \* engine call: "off", "ready", "fetch", "returned", "raised"
    e_horizon,      \* the horizon string given to generate_forecast
    e_hours,        \* what _parse_horizon returned
    e_in,           \* model preference, measurement answer and random draws
    e_out,          \* what generate_forecast returned or raised
    now,            \* datetime.utcnow(), in ticks
    core_impl,      \* the ICoreDb given to ForecastService: "Mock" or "Gateway"
    store_impl,     \* the IForecastRead / IForecastWrite pair
    meas_impl,      \* the IMeasurement
    forecasts,      \* MockForecastWrite.forecasts / the Forecasts collection
    read_forecasts, \* MockForecastRead.forecasts
    next_id,        \* MockForecastWrite.next_id
    model_versions, \* MLModelManager.model_versions
    task,           \* the request_forecast tasks, one request each
    models,         \* MLModelManager.models: cache key -> handle
    performance_metrics, \* MLModelManager.performance_metrics
    train,          \* the ForecastService.train_model tasks, one call each
    last_op,        \* the latest call on the model manager and its answer
    opt,            \* the latest call on the OptimizationEngine and its answer
    optimization    \* the ForecastService.get_optimization call, one call

engine_vars == <<e_pc, e_horizon, e_hours, e_in, e_out>>

service_vars == <<now, core_impl, store_impl, meas_impl, forecasts, read_forecasts,
                  next_id, model_versions, task>>

manager_vars == <<models, performance_metrics, train, last_op>>

vars == <<e_pc, e_horizon, e_hours, e_in, e_out,
          now, core_impl, store_impl, meas_impl, forecasts, read_forecasts,
          next_id, model_versions, task,
          models, performance_metrics, train, last_op, opt, optimization>>

\* the random draws and roundings of one engine run: each noise pattern and
\* each tie pattern occurs
EngineDraws ==
    { [noise |-> "zero",      tie |-> "down"],
      [noise |-> "minus",     tie |-> "up"],
      [noise |-> "alternate", tie |-> "mixed"] }

NoHours == [ok |-> FALSE, hours |-> 0, err |-> "none"]

NoIn == [hist |-> [n |-> 0, last |-> 0, step |-> 1, pattern |-> "zero"],
         model_type |-> "auto", noise |-> "zero", tie |-> "up"]

NoOut == [ok |-> FALSE, err |-> "none", values |-> <<>>, accuracy |-> 0,
          model_used |-> "none", is_valid |-> FALSE, strategy |-> "none"]

(* --------------------- engine: one generate_forecast ------------------- *)

EngineOff ==
    /\ e_pc = "off"
    /\ e_horizon = <<>>
    /\ e_hours = NoHours
    /\ e_in = NoIn
    /\ e_out = NoOut

EngineInit ==
    /\ e_pc = "ready"
    /\ e_horizon \in SeqsUpTo(Alphabet, MaxLen)
    /\ e_hours = NoHours
    /\ e_in = NoIn
    /\ e_out = NoOut

\* generate_forecast up to the await on the measurement source
EngineParse ==
    /\ e_pc = "ready"
    /\ e_hours' = parse_horizon(e_horizon)
    /\ e_pc' = IF e_hours'.ok THEN "fetch" ELSE "raised"
    /\ e_out' = IF e_hours'.ok THEN e_out
                ELSE [NoOut EXCEPT !.err = e_hours'.err]
    /\ UNCHANGED <<e_horizon, e_in>>
    /\ UNCHANGED service_vars
    /\ UNCHANGED manager_vars
    /\ UNCHANGED opt
    /\ UNCHANGED optimization

\* the measurement source answers; generate_forecast runs to its end
EngineGenerate ==
    /\ e_pc = "fetch"
    /\ \E hist \in Histories :
          LET pre == HistoryFrames[hist]
          IN  \E mt \in ModelTypes, draw \in EngineDraws :
                /\ e_in' = [hist |-> hist, model_type |-> mt,
                            noise |-> draw.noise, tie |-> draw.tie]
                /\ e_out' = select_and_predict(pre, e_hours.hours, mt,
                                               draw.noise, draw.tie)
    /\ e_pc' = IF e_out'.ok THEN "returned" ELSE "raised"
    /\ UNCHANGED <<e_horizon, e_hours>>
    /\ UNCHANGED service_vars
    /\ UNCHANGED manager_vars
    /\ UNCHANGED opt
    /\ UNCHANGED optimization

EngineNext == EngineParse \/ EngineGenerate

(* ------------------------- requests and wiring ------------------------- *)

\* bound on the clock: ticks after Epoch
MaxTime == 2
Tasks == {"t1", "t2"}

Buildings == {"B1"}

ForecastTypes == {"energy_demand"}

RequestHorizons == {<<"2", "H">>, <<"2", "4", "H">>, <<"2", "d">>, <<"x", "H">>}

\* the collaborators ForecastService is constructed over: MockDAC as in
\* app/main.py, DataAccessGateway alone, and the gateway's stores with the
\* mock metadata source
Wirings ==
    { [core |-> "Mock",    store |-> "Mock",    meas |-> "Mock"],
      [core |-> "Gateway", store |-> "Gateway", meas |-> "Gateway"],
      [core |-> "Mock",    store |-> "Gateway", meas |-> "Gateway"] }

\* the random draws of one engine run
ServiceDraws == {[noise |-> "alternate", tie |-> "down"]}

(* ------------------------------ records -------------------------------- *)

NoId == [prefix |-> "none", n |-> 0]

\* MLModelManager.default_version, "1.4.2"
DefaultVersion == <<1, 4, 2>>

\* None, where a ForecastData is expected
NoForecast ==
    [id |-> NoId, type |-> "", horizon |-> <<>>, issued_at |-> 0,
     requested_by |-> "", series_item |-> <<>>, valid_from |-> 0, valid_to |-> 0,
     algo |-> "", ver |-> <<>>, building_id |-> ""]

\* None, where a ForecastResult is expected
NoResult ==
    [forecast_id |-> NoId, building_id |-> "", forecast_type |-> "",
     horizon |-> <<>>, values |-> <<>>, accuracy |-> 0, generated_at |-> 0,
     valid_from |-> 0, valid_to |-> 0, model_used |-> "", model_version |-> <<>>]

NoError == [kind |-> "none", origin |-> "none"]

IdleTask ==
    [pc |-> "idle",
     req |-> [building_id |-> "", horizon |-> <<>>, forecast_type |-> ""],
     started_at |-> 0,      \* the clock when the request started
     seen |-> {},           \* ids of the records stored when it started
     existing |-> NoForecast,
     checked_at |-> 0,      \* the clock read of the age check
     hours_ahead |-> 0,
     end_date |-> 0,
     meas_n |-> 0 - 1,      \* number of points the measurement source returned
     gen |-> NoOut,
     now_at |-> 0,          \* 'now' of step 4
     valid_to |-> 0,
     model_version |-> <<>>,
     result |-> NoResult,
     lookup |-> NoResult,   \* what get_forecast answered for result.forecast_id
     raised |-> NoError,    \* the exception as first raised, and where
     error |-> "none",      \* the exception the caller receives
     calls |-> <<>>]        \* the collaborator calls made, in order

(* ------------------------------ MockCoreDb ----------------------------- *)

\* a metadata source that answers for every id, whatever the implementation
get_building_Any(impl, building_id) == TRUE

\* ICoreDb.get_building: MockCoreDb answers for every id, DataAccessGateway's
\* stub answers None
get_building(impl, building_id) == impl = "Mock"

(* ----------------------------- forecast store -------------------------- *)

Records(fs) == {fs[i] : i \in 1..Len(fs)}

\* the answers get_latest_forecast may give: MockForecastRead answers None;
\* DataAccessGateway sorts the matching records by issued_at descending and
\* takes the first (any of them when several share the greatest issued_at)
get_latest_forecast(impl, fs, building_id, forecast_type, horizon) ==
    IF impl = "Mock" THEN {NoForecast}
    ELSE LET m == {r \in Records(fs) : /\ r.building_id = building_id
                                       /\ r.type = forecast_type
                                       /\ r.horizon = horizon}
         IN  IF m = {} THEN {NoForecast}
             ELSE {r \in m : \A q \in m : q.issued_at <= r.issued_at}

\* a lookup that reads the read-side dictionary whatever the implementation
get_forecast_by_id_OwnDictionary(impl, fs, rfs, forecast_id) ==
    IF \E r \in Records(rfs) : r.id = forecast_id
    THEN CHOOSE r \in Records(rfs) : r.id = forecast_id
    ELSE NoForecast

\* get_forecast_by_id: MockForecastRead looks in its own dictionary,
\* DataAccessGateway in the collection
get_forecast_by_id(impl, fs, rfs, forecast_id) ==
    LET src == IF impl = "Mock" THEN Records(rfs) ELSE Records(fs)
    IN  IF \E r \in src : r.id = forecast_id
        THEN CHOOSE r \in src : r.id = forecast_id
        ELSE NoForecast

\* the id create_forecast gives: "forecast_<next_id>" from MockForecastWrite,
\* a fresh ObjectId from the collection
new_forecast_id(impl, fs, nid) ==
    IF impl = "Mock" THEN [prefix |-> "forecast_", n |-> nid]
    ELSE [prefix |-> "oid", n |-> Len(fs) + 1]

\* the record create_forecast stores; issued_at is the clock at the insert
new_forecast(id, clock, forecast_type, horizon, building_id, requested_by, series_data, valid_from, valid_to, model_algorithm, model_version) ==
    [id |-> id, type |-> forecast_type, horizon |-> horizon, issued_at |-> clock,
     requested_by |-> requested_by, series_item |-> series_data,
     valid_from |-> valid_from, valid_to |-> valid_to,
     algo |-> model_algorithm, ver |-> model_version, building_id |-> building_id]

(* --------------------------- measurement source ------------------------ *)

\* MockMeasurement: one point an hour from start_date to end_date inclusive
MockHistory(end_date) ==
    [n |-> TrainingDays * 24 + 1, last |-> end_date, step |-> TicksPerHour,
     pattern |-> "day_night"]

\* DataAccessGateway.get_measurements: whatever the collection holds in range
GatewayHistories(end_date) ==
    { [n |-> 167, last |-> end_date, step |-> TicksPerHour, pattern |-> "flat"],
      [n |-> 168, last |-> end_date, step |-> TicksPerHour, pattern |-> "day_night"] }

get_measurements(impl, end_date) ==
    IF impl = "Mock" THEN {MockHistory(end_date)} ELSE GatewayHistories(end_date)

ServiceHistories ==
    UNION {get_measurements(i, t) : i \in {"Mock", "Gateway"},
                                    t \in Epoch..(Epoch + MaxTime)}

ServiceFrames == [h \in ServiceHistories |-> check_and_preprocess(HistoryOf(h))]

(* ------------------------------ ForecastService ------------------------ *)

\* the age bound halved: age_hours < 0.5
is_fresh_HalfHour(clock, issued_at) == 2 * (clock - issued_at) < Hours(1)

\* age_hours < 1.0
is_fresh(clock, issued_at) == clock - issued_at < Hours(1)

\* step 4 of request_forecast: the hours from 'now' to valid_to, [ok, hours, err]
validity_hours(horizon) ==
    IF EndsWith(horizon, "H")
    THEN LET n == PyInt(DropLast(horizon))
         IN  IF n.ok THEN [ok |-> TRUE, hours |-> n.val, err |-> "none"]
                     ELSE [ok |-> FALSE, hours |-> 0, err |-> "ValueError"]
    ELSE IF EndsWith(horizon, "D")
    THEN LET n == PyInt(DropLast(horizon))
         IN  IF n.ok THEN [ok |-> TRUE, hours |-> n.val * 24, err |-> "none"]
                     ELSE [ok |-> FALSE, hours |-> 0, err |-> "ValueError"]
    ELSE [ok |-> TRUE, hours |-> DefaultHours, err |-> "none"]

\* no except clause: whatever the engine raises reaches the caller
propagate_engine_error(kind) == kind

\* the try / except around generate_forecast
translate_engine_error(kind) ==
    IF kind = "InsufficientDataError" THEN "ValueError" ELSE kind

\* the registry ignored: always the default version
version_of_Default(mv, building_id, model_type) == DefaultVersion

\* model_versions.get(building_id, {}).get(model_used, "1.4.2")
version_of(mv, building_id, model_type) ==
    IF <<building_id, model_type>> \in DOMAIN mv
    THEN mv[<<building_id, model_type>>] ELSE DefaultVersion

\* accuracy=0.88 is fixed in the conversion
convert_to_forecast_result(d) ==
    [forecast_id |-> d.id, building_id |-> d.building_id, forecast_type |-> d.type,
     horizon |-> d.horizon, values |-> d.series_item, accuracy |-> 5280,
     generated_at |-> d.issued_at, valid_from |-> d.valid_from,
     valid_to |-> d.valid_to, model_used |-> d.algo, model_version |-> d.ver]

\* ForecastService.get_forecast
get_forecast(impl, fs, rfs, forecast_id) ==
    LET d == get_forecast_by_id(impl, fs, rfs, forecast_id)
    IN  IF d = NoForecast THEN NoResult ELSE convert_to_forecast_result(d)

\* the task request_forecast runs in when get_optimization calls it
InnerTask == "t2"

\* no get_optimization call made yet
IdleOptimization ==
    [pc |-> "idle", building_id |-> "", time_range_hours |-> 0,
     lookup |-> "pending",       \* get_latest_forecast: "forecast", "none", "raised"
     latest |-> NoResult,        \* latest_forecast
     end_date |-> 0,             \* end of the baseline window
     current_consumption |-> 0,
     forecast_values |-> <<>>,   \* the series given to generate_recommendations
     recommendations |-> <<>>,
     total_potential_savings |-> 0,
     forecast_id |-> NoId,       \* OptimizationResult.forecast_id
     error |-> "none"]

\* get_optimization when the request_forecast it awaits in task p ends as t:
\* the exception propagates, or the call goes on to its await on
\* get_measurements
after_request_forecast(o, p, t, clock) ==
    IF ~(p = InnerTask /\ o.pc = "request_forecast") THEN o
    ELSE IF t.pc = "failed" THEN [o EXCEPT !.pc = "failed", !.error = t.error]
    ELSE IF t.pc = "done"
    THEN [o EXCEPT !.pc = "get_measurements", !.latest = t.result, !.end_date = clock]
    ELSE o

\* request_forecast up to its first await
request_task(building_id, horizon, forecast_type, clock, fs) ==
    [IdleTask EXCEPT !.pc = "get_building",
                     !.req = [building_id |-> building_id, horizon |-> horizon,
                              forecast_type |-> forecast_type],
                     !.started_at = clock,
                     !.seen = {r.id : r \in Records(fs)}]

Fail(t, kind, origin, surfaced, call) ==
    [t EXCEPT !.pc = "failed", !.raised = [kind |-> kind, origin |-> origin],
              !.error = surfaced, !.calls = Append(t.calls, call)]

(* --------------------- request_forecast, step by step ------------------ *)
(* A task runs from one await to the next in one step; the clock and the   *)
(* other tasks move in between.                                            *)

\* a caller submits a request; the task runs up to the await on get_building
StartRequest(p) ==
    /\ task[p].pc = "idle"
    /\ \E b \in Buildings, ft \in ForecastTypes, h \in RequestHorizons :
          task' = [task EXCEPT ![p] = request_task(b, h, ft, now, forecasts)]
    /\ UNCHANGED <<now, core_impl, store_impl, meas_impl, forecasts, read_forecasts,
                   next_id, model_versions>>
    /\ UNCHANGED engine_vars
    /\ UNCHANGED manager_vars
    /\ UNCHANGED opt
    /\ UNCHANGED optimization

\* step 1: get_building answers; "Building ... not found" is a ValueError
GetBuilding(p) ==
    /\ task[p].pc = "get_building"
    /\ task' = [task EXCEPT ![p] =
                  IF get_building(core_impl, task[p].req.building_id)
                  THEN [@ EXCEPT !.pc = "get_latest_forecast",
                                 !.calls = Append(@, "get_building")]
                  ELSE Fail(@, "ValueError", "service", "ValueError", "get_building")]
    /\ UNCHANGED <<now, core_impl, store_impl, meas_impl, forecasts, read_forecasts,
                   next_id, model_versions>>
    /\ UNCHANGED engine_vars
    /\ UNCHANGED manager_vars
    /\ UNCHANGED opt
    /\ optimization' = after_request_forecast(optimization, p, task'[p], now)

\* the task after the age check found `existing` fresh: it returns the record
CacheHit(t, existing, clock) ==
    [t EXCEPT !.pc = "done", !.existing = existing, !.checked_at = clock,
              !.result = convert_to_forecast_result(existing),
              !.calls = Append(t.calls, "get_latest_forecast")]

\* the task after the age check failed: generate_forecast is called and runs
\* to its await on the measurement source (or _parse_horizon raises)
CacheMiss(t, existing, clock) ==
    LET ph == parse_horizon(t.req.horizon)
        t1 == [t EXCEPT !.existing = existing, !.checked_at = clock,
                        !.calls = Append(t.calls, "get_latest_forecast")]
    IN  IF ~ph.ok
        THEN Fail(t1, ph.err, "engine", translate_engine_error(ph.err),
                  "generate_forecast")
        ELSE [t1 EXCEPT !.pc = "get_measurements", !.hours_ahead = ph.hours,
                        !.end_date = clock,
                        !.calls = Append(t1.calls, "generate_forecast")]

\* step 2: get_latest_forecast answers (or the store fails), then the age check
GetLatestForecast(p) ==
    /\ task[p].pc = "get_latest_forecast"
    /\ \/ /\ store_impl = "Gateway"
          /\ task' = [task EXCEPT ![p] =
                        Fail(@, "ConnectionFailure", "store_read",
                             "ConnectionFailure", "get_latest_forecast")]
       \/ \E existing \in get_latest_forecast(store_impl, forecasts,
                              task[p].req.building_id, task[p].req.forecast_type,
                              task[p].req.horizon) :
             task' = [task EXCEPT ![p] =
                        IF existing # NoForecast /\ is_fresh(now, existing.issued_at)
                        THEN CacheHit(@, existing, now)
                        ELSE CacheMiss(@, existing, now)]
    /\ UNCHANGED <<now, core_impl, store_impl, meas_impl, forecasts, read_forecasts,
                   next_id, model_versions>>
    /\ UNCHANGED engine_vars
    /\ UNCHANGED manager_vars
    /\ UNCHANGED opt
    /\ optimization' = after_request_forecast(optimization, p, task'[p], now)

\* the task after generate_forecast returned `out`: steps 4 and 5 up to the
\* await on create_forecast
AfterEngine(t, n, out, clock, mv) ==
    LET t1 == [t EXCEPT !.meas_n = n, !.gen = out,
                        !.calls = Append(t.calls, "get_measurements")]
        vh == validity_hours(t.req.horizon)
    IN  IF ~out.ok
        THEN [t1 EXCEPT !.pc = "failed",
                        !.raised = [kind |-> out.err, origin |-> "engine"],
                        !.error = translate_engine_error(out.err)]
        ELSE IF ~vh.ok
        THEN [t1 EXCEPT !.pc = "failed", !.now_at = clock,
                        !.raised = [kind |-> vh.err, origin |-> "service"],
                        !.error = vh.err]
        ELSE [t1 EXCEPT !.pc = "create_forecast", !.now_at = clock,
                        !.valid_to = clock + Hours(vh.hours),
                        !.model_version =
                            version_of(mv, t.req.building_id, out.model_used)]

\* step 3: the measurement source answers (or fails); the engine runs to its end
GetMeasurements(p) ==
    /\ task[p].pc = "get_measurements"
    /\ \/ /\ meas_impl = "Gateway"
          /\ task' = [task EXCEPT ![p] =
                        Fail(@, "ConnectionFailure", "measurement",
                             translate_engine_error("ConnectionFailure"),
                             "get_measurements")]
       \/ \E hist \in get_measurements(meas_impl, task[p].end_date),
             draw \in ServiceDraws :
             task' = [task EXCEPT ![p] =
                        AfterEngine(@, hist.n,
                            select_and_predict(ServiceFrames[hist], @.hours_ahead,
                                               "auto", draw.noise, draw.tie),
                            now, model_versions)]
    /\ UNCHANGED <<now, core_impl, store_impl, meas_impl, forecasts, read_forecasts,
                   next_id, model_versions>>
    /\ UNCHANGED engine_vars
    /\ UNCHANGED manager_vars
    /\ UNCHANGED opt
    /\ optimization' = after_request_forecast(optimization, p, task'[p], now)

\* step 6: the result assembled around the id the store gave
new_result(t, forecast_id) ==
    [forecast_id |-> forecast_id, building_id |-> t.req.building_id,
     forecast_type |-> t.req.forecast_type, horizon |-> t.req.horizon,
     values |-> t.gen.values, accuracy |-> t.gen.accuracy,
     generated_at |-> t.now_at, valid_from |-> t.now_at, valid_to |-> t.valid_to,
     model_used |-> t.gen.model_used, model_version |-> t.model_version]

\* step 5: create_forecast stores the record and answers with its id (or fails)
CreateForecast(p) ==
    /\ task[p].pc = "create_forecast"
    /\ \/ /\ store_impl = "Gateway"
          /\ task' = [task EXCEPT ![p] =
                        Fail(@, "ConnectionFailure", "store_write",
                             "ConnectionFailure", "create_forecast")]
          /\ UNCHANGED <<forecasts, next_id>>
       \/ LET t  == task[p]
              id == new_forecast_id(store_impl, forecasts, next_id)
          IN  /\ forecasts' = Append(forecasts,
                    new_forecast(id, now, t.req.forecast_type, t.req.horizon,
                                 t.req.building_id, "user", t.gen.values,
                                 t.now_at, t.valid_to, t.gen.model_used,
                                 t.model_version))
              /\ next_id' = IF store_impl = "Mock" THEN next_id + 1 ELSE next_id
              /\ task' = [task EXCEPT ![p] =
                            [@ EXCEPT !.pc = "done", !.result = new_result(t, id),
                                      !.calls = Append(@, "create_forecast")]]
    /\ UNCHANGED <<now, core_impl, store_impl, meas_impl, read_forecasts,
                   model_versions>>
    /\ UNCHANGED engine_vars
    /\ UNCHANGED manager_vars
    /\ UNCHANGED opt
    /\ optimization' = after_request_forecast(optimization, p, task'[p], now)

\* the caller of a successful request asks get_forecast for the id it was given
GetForecast(p) ==
    /\ task[p].pc = "done"
    /\ task' = [task EXCEPT ![p] =
                  [@ EXCEPT !.pc = "looked_up",
                            !.lookup = get_forecast(store_impl, forecasts,
                                           read_forecasts, task[p].result.forecast_id)]]
    /\ UNCHANGED <<now, core_impl, store_impl, meas_impl, forecasts, read_forecasts,
                   next_id, model_versions>>
    /\ UNCHANGED engine_vars
    /\ UNCHANGED manager_vars
    /\ UNCHANGED opt
    /\ UNCHANGED optimization

\* time passes
Tick ==
    /\ now < Epoch + MaxTime
    /\ now' = now + 1
    /\ UNCHANGED <<core_impl, store_impl, meas_impl, forecasts, read_forecasts,
                   next_id, model_versions, task>>
    /\ UNCHANGED engine_vars
    /\ UNCHANGED manager_vars
    /\ UNCHANGED opt
    /\ UNCHANGED optimization

(* ------------------------------ MLModelManager ------------------------- *)

\* forecast_service.py:343  days < 30
MinTrainingDays == 30
\* forecast_service.py:354  len(measurements) < 24 * 30
MinTrainingPoints == 720
\* ml_model_manager.py:82, 176  'training_samples': 720
TrainingSamples == 720

\* ml_model_manager.py:275  accuracy > 0.85, in 1/6000
HealthyAbove == 5100

\* the model types a training or a load is asked for
TrainModelTypes == {"LSTM", "XGBoost"}

\* the ids a caller of the model manager may pass: building_id and model_type
\* are unvalidated strings (api/routes.py:94-96, 121)
AnyBuildings == {"B1", "B1_X"}
AnyModelTypes == {"LSTM", "X_LSTM"}

\* f"{major}.{minor}.{patch}": the version as the string the manager holds
version_string(v) == ToString(v[1]) \o "." \o ToString(v[2]) \o "." \o ToString(v[3])

\* f"{building_id}_{model_type}"
cache_key(building_id, model_type) == building_id \o "_" \o model_type

\* f"{building_id}_{model_type}_{new_version}"
metrics_key(building_id, model_type, version) == building_id \o "_" \o model_type \o "_" \o version_string(version)

\* d[k] = v on a dict
Put(d, k, v) == [x \in (DOMAIN d) \cup {k} |-> IF x = k THEN v ELSE d[x]]

\* d.get(k, default)
Get(d, k, default) == IF k \in DOMAIN d THEN d[k] ELSE default

\* None, where a model handle or a model info is expected
NoModel == [status |-> "none"]

\* the draws of np.random.uniform in one training: accuracy in 1/6000 (below
\* 0.06), MAPE and RMSE in hundredths
TrainDraws == {[acc |-> 0, mape |-> 0, rmse |-> 0],
               [acc |-> 300, mape |-> 250, rmse |-> 150]}

\* the patch component left as it is
next_version_Same(v) == v

\* f"{major}.{minor}.{patch + 1}" of the version split at the dots
next_version(v) == <<v[1], v[2], v[3] + 1>>

\* a load that ignores the cache: a new placeholder of the default version
load_model_Reload(ms, mv, building_id, model_type, clock) ==
    LET model == [type |-> model_type, building_id |-> building_id,
                  version |-> DefaultVersion, loaded_at |-> clock,
                  trained_at |-> clock, training_samples |-> TrainingSamples,
                  status |-> "loaded"]
    IN  [hit |-> FALSE, result |-> model,
         models |-> Put(ms, cache_key(building_id, model_type), model),
         model_versions |-> Put(mv, <<building_id, model_type>>, DefaultVersion)]

\* MLModelManager.load_model: [hit, result, models, model_versions]
load_model(ms, mv, building_id, model_type, clock) ==
    LET key == cache_key(building_id, model_type)
        model == [type |-> model_type, building_id |-> building_id,
                  version |-> DefaultVersion, loaded_at |-> clock,
                  trained_at |-> clock, training_samples |-> TrainingSamples,
                  status |-> "loaded"]
    IN  IF key \in DOMAIN ms
        THEN [hit |-> TRUE, result |-> ms[key], models |-> ms, model_versions |-> mv]
        ELSE [hit |-> FALSE, result |-> model, models |-> Put(ms, key, model),
              model_versions |-> Put(mv, <<building_id, model_type>>, DefaultVersion)]

\* the metrics one training generates: accuracy in 1/6000, MAPE in hundredths
\* of a percent, RMSE in hundredths of a kW
train_metrics(model_type, draw, clock) ==
    IF model_type = "LSTM"
    THEN [accuracy |-> 5160 + draw.acc, mape |-> 1500 - draw.mape,
          rmse |-> 600 + draw.rmse, training_samples |-> TrainingSamples,
          trained_at |-> clock]
    ELSE [accuracy |-> 4920 + draw.acc, mape |-> 1800 - draw.mape,
          rmse |-> 700 + draw.rmse, training_samples |-> TrainingSamples,
          trained_at |-> clock]

\* MLModelManager.train_model: [result, models, model_versions, performance_metrics]
train_model(ms, mv, pm, building_id, model_type, draw, clock) ==
    LET m == train_metrics(model_type, draw, clock)
        new_version == next_version(version_of(mv, building_id, model_type))
        model == [type |-> model_type, building_id |-> building_id,
                  version |-> new_version, loaded_at |-> clock,
                  trained_at |-> clock, training_samples |-> TrainingSamples,
                  accuracy |-> m.accuracy, status |-> "trained"]
    IN  [result |-> [status |-> "success", model_version |-> new_version,
                     accuracy |-> RoundDiv(m.accuracy * 10, 6, "up", 0),
                     training_samples |-> TrainingSamples,
                     validation_mape |-> m.mape, validation_rmse |-> m.rmse],
         models |-> Put(ms, cache_key(building_id, model_type), model),
         model_versions |-> Put(mv, <<building_id, model_type>>, new_version),
         performance_metrics |->
             Put(pm, metrics_key(building_id, model_type, new_version), m)]

\* MLModelManager.get_model_info: NoModel for None; metrics is {} when no
\* record is stored under the handle's version
get_model_info(ms, pm, building_id, model_type) ==
    LET key == cache_key(building_id, model_type)
    IN  IF key \notin DOMAIN ms THEN NoModel
        ELSE LET model == ms[key]
             IN  [type |-> model_type, version |-> model.version,
                  building_id |-> building_id, status |-> model.status,
                  trained_at |-> model.trained_at,
                  training_samples |-> model.training_samples,
                  metrics |-> Get(pm, metrics_key(building_id, model_type,
                                                  model.version), <<>>)]

\* MLModelManager.get_model_performance
get_model_performance(ms, pm, building_id, model_type) ==
    LET info == get_model_info(ms, pm, building_id, model_type)
    IN  IF info = NoModel THEN [status |-> "not_found"]
        ELSE [model_type |-> model_type, model_version |-> info.version,
              accuracy |-> Get(info.metrics, "accuracy", 0),
              mape |-> Get(info.metrics, "mape", 0),
              rmse |-> Get(info.metrics, "rmse", 0),
              training_samples |-> info.training_samples,
              last_trained |-> info.trained_at,
              status |-> IF Get(info.metrics, "accuracy", 0) > HealthyAbove
                         THEN "healthy" ELSE "needs_retraining"]

\* ForecastService.get_model_performance: [raised, value]
service_get_model_performance(ms, pm, building_id, model_type, clock) ==
    LET performance == get_model_performance(ms, pm, building_id, model_type)
    IN  IF performance.status = "not_found"
        THEN [raised |-> "ModelNotTrainedError", value |-> performance]
        ELSE [raised |-> "none",
              value |-> [model_type |-> model_type,
                         model_version |-> performance.model_version,
                         accuracy |-> performance.accuracy,
                         mape |-> performance.mape, rmse |-> performance.rmse,
                         last_trained |-> performance.last_trained,
                         training_samples |-> performance.training_samples,
                         evaluation_date |-> clock]]

(* ---------------------- ForecastService.train_model -------------------- *)

\* the spans end_date - start_date the callers ask for: a tick short of 30
\* days, and 30 days
TrainSpans == {Hours(24 * MinTrainingDays) - 1, Hours(24 * MinTrainingDays)}

\* the whole days of the span, rounded up
span_days_RoundedUp(span) == (span + Hours(24) - 1) \div Hours(24)

\* (end_date - start_date).days
span_days(span) == span \div Hours(24)

\* the number of points the measurement source returns for the span:
\* MockMeasurement one an hour, both ends included; the collection whatever
\* it holds
training_points(impl, span) ==
    IF impl = "Mock" THEN {span \div TicksPerHour + 1}
    ELSE {MinTrainingPoints - 1, MinTrainingPoints}

NoTraining == [status |-> "none"]

IdleTrain ==
    [pc |-> "idle", building_id |-> "", model_type |-> "", span |-> 0,
     version_at_start |-> <<>>,  \* the registered version when the call began
     points |-> 0 - 1,           \* the number of measurements fetched
     result |-> NoTraining, error |-> "none"]

NoOp == [flip |-> 0, op |-> "none", building_id |-> "", model_type |-> "",
         hit |-> FALSE, result |-> NoModel]

\* the record of one call on the model manager
Op(op, building_id, model_type, hit, result) ==
    [flip |-> 1 - last_op.flip, op |-> op, building_id |-> building_id,
     model_type |-> model_type, hit |-> hit, result |-> result]

\* a caller submits a training request; the call runs to its await on the
\* measurement source, or raises ValueError on a span under 30 days
StartTraining(r) ==
    /\ train[r].pc = "idle"
    /\ \E b \in Buildings, mt \in TrainModelTypes, span \in TrainSpans :
          train' = [train EXCEPT ![r] =
                      [IdleTrain EXCEPT
                          !.pc = IF span_days(span) < MinTrainingDays
                                 THEN "failed" ELSE "get_measurements",
                          !.building_id = b, !.model_type = mt, !.span = span,
                          !.version_at_start = version_of(model_versions, b, mt),
                          !.error = IF span_days(span) < MinTrainingDays
                                    THEN "ValueError" ELSE "none"]]
    /\ UNCHANGED <<models, performance_metrics, last_op>>
    /\ UNCHANGED service_vars
    /\ UNCHANGED engine_vars
    /\ UNCHANGED opt
    /\ UNCHANGED optimization

\* the measurement source answers (or fails); with 720 points or more the
\* model manager trains and the call returns its result
FinishTraining(r) ==
    /\ train[r].pc = "get_measurements"
    /\ \/ /\ meas_impl = "Gateway"
          /\ train' = [train EXCEPT ![r] = [@ EXCEPT !.pc = "failed",
                                               !.error = "ConnectionFailure"]]
          /\ UNCHANGED <<models, performance_metrics, last_op, model_versions>>
       \/ \E n \in training_points(meas_impl, train[r].span) :
             /\ n < MinTrainingPoints
             /\ train' = [train EXCEPT ![r] =
                            [@ EXCEPT !.pc = "failed", !.points = n,
                                      !.error = "InsufficientDataError"]]
             /\ UNCHANGED <<models, performance_metrics, last_op, model_versions>>
       \/ \E n \in training_points(meas_impl, train[r].span), draw \in TrainDraws :
             LET t == train[r]
                 out == train_model(models, model_versions, performance_metrics,
                                    t.building_id, t.model_type, draw, now)
             IN  /\ n >= MinTrainingPoints
                 /\ models' = out.models
                 /\ model_versions' = out.model_versions
                 /\ performance_metrics' = out.performance_metrics
                 /\ train' = [train EXCEPT ![r] =
                                [@ EXCEPT !.pc = "done", !.points = n,
                                          !.result = out.result]]
                 /\ last_op' = Op("train", t.building_id, t.model_type,
                                  FALSE, out.result)
    /\ UNCHANGED <<now, core_impl, store_impl, meas_impl, forecasts,
                   read_forecasts, next_id, task>>
    /\ UNCHANGED engine_vars
    /\ UNCHANGED opt
    /\ UNCHANGED optimization

\* MLModelManager.load_model is called
LoadModel ==
    /\ \E b \in Buildings, mt \in TrainModelTypes :
          LET out == load_model(models, model_versions, b, mt, now)
          IN  /\ models' = out.models
              /\ model_versions' = out.model_versions
              /\ last_op' = Op("load", b, mt, out.hit, out.result)
    /\ UNCHANGED <<performance_metrics, train>>
    /\ UNCHANGED <<now, core_impl, store_impl, meas_impl, forecasts,
                   read_forecasts, next_id, task>>
    /\ UNCHANGED engine_vars
    /\ UNCHANGED opt
    /\ UNCHANGED optimization

\* MLModelManager.get_model_info is called
GetModelInfo ==
    /\ \E b \in Buildings, mt \in TrainModelTypes :
          last_op' = Op("info", b, mt, FALSE,
                        get_model_info(models, performance_metrics, b, mt))
    /\ UNCHANGED <<models, performance_metrics, train>>
    /\ UNCHANGED service_vars
    /\ UNCHANGED engine_vars
    /\ UNCHANGED opt
    /\ UNCHANGED optimization

\* ForecastService.get_model_performance is called
GetModelPerformance ==
    /\ \E b \in Buildings, mt \in TrainModelTypes :
          last_op' = Op("performance", b, mt, FALSE,
                        service_get_model_performance(models, performance_metrics,
                                                      b, mt, now))
    /\ UNCHANGED <<models, performance_metrics, train>>
    /\ UNCHANGED service_vars
    /\ UNCHANGED engine_vars
    /\ UNCHANGED opt
    /\ UNCHANGED optimization

Trainers == {"r1", "r2"}

\* MLModelManager.__init__, and no training asked for yet
ManagerInit ==
    /\ models = <<>>
    /\ performance_metrics = <<>>
    /\ train = [r \in Trainers |-> IdleTrain]
    /\ last_op = NoOp

ManagerNext ==
    \/ \E r \in Trainers : StartTraining(r)
    \/ \E r \in Trainers : FinishTraining(r)
    \/ LoadModel
    \/ GetModelInfo
    \/ GetModelPerformance
    \/ Tick

\* the model manager called directly, with any strings as ids

\* a direct training is run while the patch component is below this
MaxPatch == 3

\* MLModelManager.train_model is called
TrainModelCall ==
    /\ \E b \in AnyBuildings, mt \in AnyModelTypes, draw \in TrainDraws :
          LET out == train_model(models, model_versions, performance_metrics,
                                 b, mt, draw, now)
          IN  /\ version_of(model_versions, b, mt)[3] < MaxPatch
              /\ models' = out.models
              /\ model_versions' = out.model_versions
              /\ performance_metrics' = out.performance_metrics
              /\ last_op' = Op("train", b, mt, FALSE, out.result)
    /\ UNCHANGED train
    /\ UNCHANGED <<now, core_impl, store_impl, meas_impl, forecasts,
                   read_forecasts, next_id, task>>
    /\ UNCHANGED engine_vars
    /\ UNCHANGED opt
    /\ UNCHANGED optimization

\* MLModelManager.load_model is called
LoadModelCall ==
    /\ \E b \in AnyBuildings, mt \in AnyModelTypes :
          LET out == load_model(models, model_versions, b, mt, now)
          IN  /\ models' = out.models
              /\ model_versions' = out.model_versions
              /\ last_op' = Op("load", b, mt, out.hit, out.result)
    /\ UNCHANGED <<performance_metrics, train>>
    /\ UNCHANGED <<now, core_impl, store_impl, meas_impl, forecasts,
                   read_forecasts, next_id, task>>
    /\ UNCHANGED engine_vars
    /\ UNCHANGED opt
    /\ UNCHANGED optimization

\* MLModelManager.get_model_info is called
ModelInfoCall ==
    /\ \E b \in AnyBuildings, mt \in AnyModelTypes :
          last_op' = Op("info", b, mt, FALSE,
                        get_model_info(models, performance_metrics, b, mt))
    /\ UNCHANGED <<models, performance_metrics, train>>
    /\ UNCHANGED service_vars
    /\ UNCHANGED engine_vars
    /\ UNCHANGED opt
    /\ UNCHANGED optimization

\* MLModelManager.get_model_performance is called
ModelPerformanceCall ==
    /\ \E b \in AnyBuildings, mt \in AnyModelTypes :
          last_op' = Op("manager_performance", b, mt, FALSE,
                        get_model_performance(models, performance_metrics, b, mt))
    /\ UNCHANGED <<models, performance_metrics, train>>
    /\ UNCHANGED service_vars
    /\ UNCHANGED engine_vars
    /\ UNCHANGED opt
    /\ UNCHANGED optimization

IsolationNext ==
    \/ TrainModelCall
    \/ LoadModelCall
    \/ ModelInfoCall
    \/ ModelPerformanceCall

(* -------------------------- OptimizationEngine ------------------------- *)

\* optimization_engine.py:29-33 self.pricing, in grosz (hundredths of a zloty)
\* per kWh
PeakRate == 105
OffPeakRate == 65
SuperOffPeakRate == 45
\* optimization_engine.py:40 'min_savings_threshold': 20.0, in grosz
MinSavingsThreshold == 2000
\* optimization_engine.py:134 top_peak[2] > 80 (kW), in W
HighPeak == 80000
\* optimization_engine.py:136 shift_amount = top_peak[2] * 0.20, in percent
ShiftPercent == 20
\* optimization_engine.py:285-286 total_daily * 30, total_daily * 365
DaysPerMonth == 30
DaysPerYear == 365

\* bound on the length of a forecast window and of a list of recommendations
OptLen == 3

\* forecast values in W: below, at and above 80 kW, and around the value
\* whose shifted fifth is worth the minimum savings
PointValues == {50000, 80000, 90000, 166666, 166667, 166875}

\* hour of the week (Monday 00:00 is 0) of the first point of a window: on a
\* Monday before the peak band, at its end, after it and before midnight, and
\* on a Saturday morning
StartHours == {8, 20, 21, 23, 128}

\* a forecast as the engine hands it over: one point an hour; hour and weekday
\* are timestamp.hour and timestamp.weekday()
ForecastWindow(start, values) == [i \in 1..Len(values) |-> [hour |-> (start + i - 1) % 24, weekday |-> ((start + i - 1) \div 24) % 7, value |-> values[i]]]

ForecastWindows == {ForecastWindow(h, vs) : h \in StartHours, vs \in SeqsUpTo(PointValues, OptLen)}

\* round(x, 2) of an amount given in thousandths of a zloty, in thousandths
round2(x, tie, i) == 10 * RoundDiv(x, 10, tie, i)

\* _analyze_load_shifting with every point taken as a peak-hour point
analyze_load_shifting_AllHours(forecast_values, tie) ==
    LET peak_hours == 1..Len(forecast_values)
        top_value  == SetMax({forecast_values[i].value : i \in peak_hours})
        top_peak   == SetMin({i \in peak_hours : forecast_values[i].value = top_value})
        savings    == top_value * ShiftPercent * (PeakRate - SuperOffPeakRate)
    IN  IF peak_hours = {} THEN <<>>
        ELSE IF ~(top_value > HighPeak) THEN <<>>
        ELSE IF ~(savings >= MinSavingsThreshold * 100000) THEN <<>>
        ELSE << [action_type |-> "shift_load",
                 estimated_savings |-> 10 * RoundDiv(savings, 100000, tie, 0),
                 estimated_savings_pct |-> RoundDiv(ShiftPercent * (PeakRate - SuperOffPeakRate) * 10, PeakRate, tie, 1),
                 priority |-> 1,
                 time_window |-> [start |-> top_peak, hour |-> forecast_values[top_peak].hour],
                 load_to_shift_kw |-> RoundDiv(top_value * ShiftPercent, 10000, tie, 2)] >>

\* _analyze_load_shifting without the minimum-savings test
analyze_load_shifting_NoThreshold(forecast_values, tie) ==
    LET peak_hours == {i \in 1..Len(forecast_values) : 9 <= forecast_values[i].hour /\ forecast_values[i].hour < 21}
        top_value  == SetMax({forecast_values[i].value : i \in peak_hours})
        top_peak   == SetMin({i \in peak_hours : forecast_values[i].value = top_value})
        savings    == top_value * ShiftPercent * (PeakRate - SuperOffPeakRate)
    IN  IF peak_hours = {} THEN <<>>
        ELSE IF ~(top_value > HighPeak) THEN <<>>
        ELSE << [action_type |-> "shift_load",
                 estimated_savings |-> 10 * RoundDiv(savings, 100000, tie, 0),
                 estimated_savings_pct |-> RoundDiv(ShiftPercent * (PeakRate - SuperOffPeakRate) * 10, PeakRate, tie, 1),
                 priority |-> 1,
                 time_window |-> [start |-> top_peak, hour |-> forecast_values[top_peak].hour],
                 load_to_shift_kw |-> RoundDiv(top_value * ShiftPercent, 10000, tie, 2)] >>

\* OptimizationEngine._analyze_load_shifting. Values are in W; savings is the
\* amount in grosz times 100000; estimated_savings is in thousandths of a
\* zloty, estimated_savings_pct and load_to_shift_kw in tenths. The stable
\* descending sort puts the earliest of the highest peak points first.
analyze_load_shifting(forecast_values, tie) ==
    LET peak_hours == {i \in 1..Len(forecast_values) : 9 <= forecast_values[i].hour /\ forecast_values[i].hour < 21}
        top_value  == SetMax({forecast_values[i].value : i \in peak_hours})
        top_peak   == SetMin({i \in peak_hours : forecast_values[i].value = top_value})
        savings    == top_value * ShiftPercent * (PeakRate - SuperOffPeakRate)
    IN  IF peak_hours = {} THEN <<>>
        ELSE IF ~(top_value > HighPeak) THEN <<>>
        ELSE IF ~(savings >= MinSavingsThreshold * 100000) THEN <<>>
        ELSE << [action_type |-> "shift_load",
                 estimated_savings |-> 10 * RoundDiv(savings, 100000, tie, 0),
                 estimated_savings_pct |-> RoundDiv(ShiftPercent * (PeakRate - SuperOffPeakRate) * 10, PeakRate, tie, 1),
                 priority |-> 1,
                 time_window |-> [start |-> top_peak, hour |-> forecast_values[top_peak].hour],
                 load_to_shift_kw |-> RoundDiv(top_value * ShiftPercent, 10000, tie, 2)] >>

\* optimization_engine.py:174 max_demand > avg_demand * 1.3, in tenths
PeakOverAverage == 13
\* optimization_engine.py:180 (max_demand - avg_demand * 1.2) * 0.5, in tenths
ReductionOverAverage == 12
\* optimization_engine.py:181-182 monthly_savings = reduction_target * 60,
\* daily_savings = monthly_savings / 30: zloty a day per kW of reduction target
DemandChargePerDay == 2
\* optimization_engine.py:224 hvac_portion = current_consumption * 0.45, in percent
HvacPercent == 45
\* optimization_engine.py:227 hvac_portion * 0.10, in percent
SetpointPercent == 10

\* sum(f['value'] for f in forecast_values)
RECURSIVE SumPoints(_)
SumPoints(forecast_values) == IF forecast_values = <<>> THEN 0 ELSE forecast_values[1].value + SumPoints(Tail(forecast_values))

\* OptimizationEngine._analyze_peak_reduction for a window that is not empty.
\* over is (max_demand - avg_demand * 1.2) in W times 10 n, so daily_savings in
\* zloty is over * 0.5 * 2 / (10000 n); max() takes the first of the highest
\* points. estimated_savings is in thousandths of a zloty.
analyze_peak_reduction(forecast_values, tie) ==
    LET n          == Len(forecast_values)
        total      == SumPoints(forecast_values)
        max_demand == SetMax({forecast_values[i].value : i \in 1..n})
        peak       == SetMin({i \in 1..n : forecast_values[i].value = max_demand})
        over       == 10 * n * max_demand - ReductionOverAverage * total
    IN  IF ~(10 * n * max_demand > PeakOverAverage * total) THEN <<>>
        ELSE IF ~(over * DemandChargePerDay * 50 >= MinSavingsThreshold * 10000 * n) THEN <<>>
        ELSE << [action_type |-> "reduce_peak_demand",
                 estimated_savings |-> 10 * RoundDiv(over * DemandChargePerDay * 50, 10000 * n, tie, 0),
                 estimated_savings_pct |-> RoundDiv(over * 50, n * max_demand, tie, 1),
                 priority |-> 2,
                 time_window |-> [start |-> peak, hour |-> forecast_values[peak].hour],
                 target_reduction_kw |-> RoundDiv(over, 2000 * n, tie, 2)] >>

\* the low-occupancy test of _analyze_temperature_optimization
low_occupancy(point) == (22 <= point.hour \/ point.hour < 6) \/ point.weekday \in {5, 6}

\* _analyze_temperature_optimization taking the last low-occupancy point
analyze_temperature_optimization_Last(forecast_values, current_consumption, tie) ==
    LET low     == {i \in 1..Len(forecast_values) : low_occupancy(forecast_values[i])}
        savings == current_consumption * HvacPercent * SetpointPercent * SuperOffPeakRate
        first   == SetMax(low)
    IN  IF low = {} THEN <<>>
        ELSE IF ~(savings >= MinSavingsThreshold * 10000) THEN <<>>
        ELSE << [action_type |-> "adjust_temperature",
                 estimated_savings |-> 10 * RoundDiv(savings, 10000, tie, 0),
                 estimated_savings_pct |-> 100,
                 priority |-> 3,
                 time_window |-> [start |-> first, hour |-> forecast_values[first].hour]] >>

\* OptimizationEngine._analyze_temperature_optimization. savings is the amount
\* in grosz times 10000 and is the same for every point, so the loop emits at
\* its first low-occupancy point and breaks, or never emits.
analyze_temperature_optimization(forecast_values, current_consumption, tie) ==
    LET low     == {i \in 1..Len(forecast_values) : low_occupancy(forecast_values[i])}
        savings == current_consumption * HvacPercent * SetpointPercent * SuperOffPeakRate
        first   == SetMin(low)
    IN  IF low = {} THEN <<>>
        ELSE IF ~(savings >= MinSavingsThreshold * 10000) THEN <<>>
        ELSE << [action_type |-> "adjust_temperature",
                 estimated_savings |-> 10 * RoundDiv(savings, 10000, tie, 0),
                 estimated_savings_pct |-> 100,
                 priority |-> 3,
                 time_window |-> [start |-> first, hour |-> forecast_values[first].hour]] >>

\* the sort key (r.priority, -r.estimated_savings): a sorts before b
sorts_before(a, b) == a.priority < b.priority \/ (a.priority = b.priority /\ a.estimated_savings > b.estimated_savings)

\* list.sort by estimated savings alone, largest first
RECURSIVE sort_by_savings(_)
sort_by_savings(recommendations) ==
    IF recommendations = <<>> THEN <<>>
    ELSE LET rest == sort_by_savings(Tail(recommendations))
             r    == recommendations[1]
             k    == Cardinality({j \in 1..Len(rest) : rest[j].estimated_savings > r.estimated_savings})
         IN  SubSeq(rest, 1, k) \o <<r>> \o SubSeq(rest, k + 1, Len(rest))

\* recommendations.sort(key=lambda r: (r.priority, -r.estimated_savings)): a
\* stable sort, so r goes after the entries that sort before it and before the
\* entries with an equal key that stood behind it
RECURSIVE sort_recommendations(_)
sort_recommendations(recommendations) ==
    IF recommendations = <<>> THEN <<>>
    ELSE LET rest == sort_recommendations(Tail(recommendations))
             r    == recommendations[1]
             k    == Cardinality({j \in 1..Len(rest) : sorts_before(rest[j], r)})
         IN  SubSeq(rest, 1, k) \o <<r>> \o SubSeq(rest, k + 1, Len(rest))

\* forecast_values[:time_range_hours]
Slice(forecast_values, time_range_hours) ==
    LET n == Len(forecast_values)
        k == IF time_range_hours >= 0 THEN (IF time_range_hours < n THEN time_range_hours ELSE n)
             ELSE (IF n + time_range_hours > 0 THEN n + time_range_hours ELSE 0)
    IN  SubSeq(forecast_values, 1, k)

\* OptimizationEngine.generate_recommendations: the three lists the analyses
\* returned and the list returned; max() of an empty window raises ValueError
\* in _analyze_peak_reduction
generate_recommendations(forecast_values, current_consumption, time_range_hours, tie) ==
    LET window == Slice(forecast_values, time_range_hours)
        load_shift_recs        == analyze_load_shifting(window, tie)
        peak_reduction_recs    == analyze_peak_reduction(window, tie)
        temp_optimization_recs == analyze_temperature_optimization(window, current_consumption, tie)
    IN  IF window = <<>>
        THEN [raised |-> "ValueError", load_shift_recs |-> load_shift_recs,
              peak_reduction_recs |-> <<>>, temp_optimization_recs |-> <<>>,
              recommendations |-> <<>>]
        ELSE [raised |-> "none", load_shift_recs |-> load_shift_recs,
              peak_reduction_recs |-> peak_reduction_recs,
              temp_optimization_recs |-> temp_optimization_recs,
              recommendations |-> sort_recommendations(load_shift_recs \o peak_reduction_recs \o temp_optimization_recs)]

\* current_consumption values: under and over the baseline whose HVAC saving
\* is worth the minimum savings, and the default of get_optimization
Baselines == {987, 988, 50000}

\* time_range_hours: the default, a range shorter than the window, none
TimeRanges == {24, 2, 0}

\* estimated savings a caller may hand to calculate_savings, in thousandths
\* of a zloty: the field is a float without validation
SavingsValues == {4, 5, 20010, 50000}

Priorities == {1, 3}

\* an OptimizationRecommendation as calculate_savings reads it
Recommendation(s, p) == [action_type |-> "given", estimated_savings |-> s, priority |-> p]

RecommendationLists == SeqsUpTo({Recommendation(s, p) : s \in SavingsValues, p \in Priorities}, OptLen)

\* sum(r.estimated_savings for r in recommendations)
RECURSIVE SumSavings(_)
SumSavings(recommendations) == IF recommendations = <<>> THEN 0 ELSE recommendations[1].estimated_savings + SumSavings(Tail(recommendations))

\* [r for r in recommendations if r.priority == priority]
RECURSIVE WithPriority(_, _)
WithPriority(recommendations, priority) == IF recommendations = <<>> THEN <<>> ELSE IF recommendations[1].priority = priority THEN <<recommendations[1]>> \o WithPriority(Tail(recommendations), priority) ELSE WithPriority(Tail(recommendations), priority)

\* calculate_savings with the projections taken from the rounded daily total
calculate_savings_FromDaily(recommendations, tie) ==
    LET total_daily == SumSavings(recommendations)
    IN  IF recommendations = <<>>
        THEN [total_daily |-> 0, total_monthly |-> 0, total_annual |-> 0, by_priority |-> <<>>]
        ELSE [total_daily   |-> round2(total_daily, tie, 0),
              total_monthly |-> round2(total_daily, tie, 0) * DaysPerMonth,
              total_annual  |-> round2(total_daily, tie, 0) * DaysPerYear,
              by_priority   |-> [priority \in 1..5 |-> SumSavings(WithPriority(recommendations, priority))]]

\* OptimizationEngine.calculate_savings, amounts in thousandths of a zloty
calculate_savings(recommendations, tie) ==
    LET total_daily == SumSavings(recommendations)
    IN  IF recommendations = <<>>
        THEN [total_daily |-> 0, total_monthly |-> 0, total_annual |-> 0, by_priority |-> <<>>]
        ELSE [total_daily   |-> round2(total_daily, tie, 0),
              total_monthly |-> round2(total_daily * DaysPerMonth, tie, 1),
              total_annual  |-> round2(total_daily * DaysPerYear, tie, 2),
              by_priority   |-> [priority \in 1..5 |-> SumSavings(WithPriority(recommendations, priority))]]

\* no call made on the engine yet
NoCall == [op |-> "none"]

\* a call of _analyze_load_shifting
AnalyzeLoadShifting ==
    /\ opt.op = "none"
    /\ \E forecast_values \in ForecastWindows, tie \in TiePatterns :
          opt' = [op |-> "analyze_load_shifting",
                  forecast_values |-> forecast_values,
                  tie |-> tie,
                  recommendations |-> analyze_load_shifting(forecast_values, tie)]
    /\ UNCHANGED engine_vars
    /\ UNCHANGED service_vars
    /\ UNCHANGED manager_vars
    /\ UNCHANGED optimization

\* a call of calculate_savings: on the list the analysis before it returned,
\* as in get_optimization, or on a list the caller built
CalculateSavings ==
    /\ opt.op \in {"none", "analyze_load_shifting", "generate_recommendations"}
    /\ opt.op = "generate_recommendations" => opt.raised = "none"
    /\ \E recommendations \in (IF opt.op = "none" THEN RecommendationLists ELSE {opt.recommendations}), tie \in TiePatterns :
          opt' = [op |-> "calculate_savings",
                  recommendations |-> recommendations,
                  tie |-> tie,
                  savings |-> calculate_savings(recommendations, tie)]
    /\ UNCHANGED engine_vars
    /\ UNCHANGED service_vars
    /\ UNCHANGED manager_vars
    /\ UNCHANGED optimization

\* a call of _analyze_temperature_optimization
AnalyzeTemperature ==
    /\ opt.op = "none"
    /\ \E forecast_values \in ForecastWindows, current_consumption \in Baselines, tie \in TiePatterns :
          opt' = [op |-> "analyze_temperature_optimization",
                  forecast_values |-> forecast_values,
                  current_consumption |-> current_consumption,
                  tie |-> tie,
                  recommendations |-> analyze_temperature_optimization(forecast_values, current_consumption, tie)]
    /\ UNCHANGED engine_vars
    /\ UNCHANGED service_vars
    /\ UNCHANGED manager_vars
    /\ UNCHANGED optimization

\* a call of generate_recommendations
GenerateRecommendations ==
    /\ opt.op = "none"
    /\ \E forecast_values \in ForecastWindows, current_consumption \in Baselines, time_range_hours \in TimeRanges, tie \in TiePatterns :
          LET out == generate_recommendations(forecast_values, current_consumption, time_range_hours, tie)
          IN  opt' = [op |-> "generate_recommendations",
                      forecast_values |-> forecast_values,
                      current_consumption |-> current_consumption,
                      time_range_hours |-> time_range_hours,
                      tie |-> tie,
                      raised |-> out.raised,
                      load_shift_recs |-> out.load_shift_recs,
                      peak_reduction_recs |-> out.peak_reduction_recs,
                      temp_optimization_recs |-> out.temp_optimization_recs,
                      recommendations |-> out.recommendations]
    /\ UNCHANGED engine_vars
    /\ UNCHANGED service_vars
    /\ UNCHANGED manager_vars
    /\ UNCHANGED optimization

OptOff == opt = NoCall /\ optimization = IdleOptimization

OptNext == AnalyzeLoadShifting \/ AnalyzeTemperature \/ GenerateRecommendations \/ CalculateSavings

(* ------------------- ForecastService.get_optimization ------------------ *)

\* forecast_service.py:288 the baseline when no measurement is returned, in W
DefaultConsumption == 50000

\* the horizon get_optimization looks up and requests: "24H"
DayHorizon == <<"2", "4", "H">>

\* the answers of the measurement source for the last 24 hours: MockMeasurement
\* gives one point an hour from start_date to end_date inclusive; the gateway
\* gives what the collection holds, nothing or a point an hour
last_day_measurements(impl, end_date) ==
    IF impl = "Mock"
    THEN {Measurements(25, end_date, TicksPerHour, "day_night")}
    ELSE {<<>>, Measurements(24, end_date, TicksPerHour, "flat")}

\* sum(m.value for m in measurements)
SumMeasured(ms) == SumSeq([i \in 1..Len(ms) |-> ms[i].value])

\* sum(...) / len(measurements) if measurements else 50000, in W (the values
\* of the histories drawn give a whole number of W)
current_consumption_of(ms) ==
    IF ms = <<>> THEN DefaultConsumption ELSE (100 * SumMeasured(ms)) \div Len(ms)

\* the series as the OptimizationEngine reads it: the hour and the weekday
\* of datetime.fromisoformat(point['timestamp']), and the value in W
forecast_points(values) ==
    [i \in 1..Len(values) |-> [hour |-> HourOfDay(values[i].timestamp),
                               weekday |-> Weekday(values[i].timestamp),
                               value |-> values[i].value * 100]]

\* a caller asks for recommendations; the call runs to its await on
\* get_latest_forecast
StartOptimization ==
    /\ optimization.pc = "idle"
    /\ \E b \in Buildings, time_range_hours \in TimeRanges :
          optimization' = [IdleOptimization EXCEPT
                              !.pc = "get_latest_forecast", !.building_id = b,
                              !.time_range_hours = time_range_hours]
    /\ UNCHANGED service_vars
    /\ UNCHANGED engine_vars
    /\ UNCHANGED manager_vars
    /\ UNCHANGED opt

\* step 1: get_latest_forecast answers (or the store fails); with a forecast
\* the call goes on to its await on get_measurements, with none it calls
\* request_forecast, which runs to its await on get_building
OptimizationLatest ==
    /\ optimization.pc = "get_latest_forecast"
    /\ \/ /\ store_impl = "Gateway"
          /\ optimization' = [optimization EXCEPT !.pc = "failed",
                                                  !.lookup = "raised",
                                                  !.error = "ConnectionFailure"]
          /\ UNCHANGED task
       \/ \E existing \in get_latest_forecast(store_impl, forecasts,
                              optimization.building_id, "energy_demand", DayHorizon) :
             IF existing # NoForecast
             THEN /\ optimization' = [optimization EXCEPT
                                         !.pc = "get_measurements", !.lookup = "forecast",
                                         !.latest = convert_to_forecast_result(existing),
                                         !.end_date = now]
                  /\ UNCHANGED task
             ELSE /\ task[InnerTask].pc \in {"idle", "done", "failed"}
                  /\ optimization' = [optimization EXCEPT !.pc = "request_forecast",
                                                          !.lookup = "none"]
                  /\ task' = [task EXCEPT ![InnerTask] =
                                request_task(optimization.building_id, DayHorizon,
                                             "energy_demand", now, forecasts)]
    /\ UNCHANGED <<now, core_impl, store_impl, meas_impl, forecasts, read_forecasts,
                   next_id, model_versions>>
    /\ UNCHANGED engine_vars
    /\ UNCHANGED manager_vars
    /\ UNCHANGED opt

\* steps 2 to 4: the measurement source answers (or fails), the engine
\* generates the recommendations (or raises) and the result is assembled
OptimizationMeasurements ==
    /\ optimization.pc = "get_measurements"
    /\ \/ /\ meas_impl = "Gateway"
          /\ optimization' = [optimization EXCEPT !.pc = "failed",
                                                  !.error = "ConnectionFailure"]
       \/ \E ms \in last_day_measurements(meas_impl, optimization.end_date),
             draw \in ServiceDraws :
             LET tie == draw.tie
                 cc  == current_consumption_of(ms)
                 fv  == forecast_points(optimization.latest.values)
                 out == generate_recommendations(fv, cc, optimization.time_range_hours, tie)
                 o   == [optimization EXCEPT !.current_consumption = cc,
                                             !.forecast_values = fv]
             IN  optimization' =
                    IF out.raised # "none"
                    THEN [o EXCEPT !.pc = "failed", !.error = out.raised]
                    ELSE [o EXCEPT !.pc = "done",
                                   !.recommendations = out.recommendations,
                                   !.total_potential_savings =
                                       calculate_savings(out.recommendations, tie).total_daily,
                                   !.forecast_id = optimization.latest.forecast_id]
    /\ UNCHANGED service_vars
    /\ UNCHANGED engine_vars
    /\ UNCHANGED manager_vars
    /\ UNCHANGED opt


(* --------------------------- specifications ---------------------------- *)

ServiceOff ==
    /\ now = Epoch
    /\ core_impl = "Mock"
    /\ store_impl = "Mock"
    /\ meas_impl = "Mock"
    /\ forecasts = <<>>
    /\ read_forecasts = <<>>
    /\ next_id = 1
    /\ model_versions = <<>>
    /\ task = [p \in Tasks |-> IdleTask]

\* the service as constructed: MockForecastRead / MockForecastWrite / MLModelManager
\* __init__, over one of the wirings
ServiceInit ==
    /\ now = Epoch
    /\ \E w \in Wirings : /\ core_impl = w.core
                          /\ store_impl = w.store
                          /\ meas_impl = w.meas
    /\ forecasts = <<>>
    /\ read_forecasts = <<>>
    /\ next_id = 1
    /\ model_versions = <<>>
    /\ task = [p \in Tasks |-> IdleTask]

Init == ServiceInit /\ EngineOff /\ ManagerInit /\ OptOff

Next ==
    \/ \E p \in Tasks : StartRequest(p)
    \/ \E p \in Tasks : GetBuilding(p)
    \/ \E p \in Tasks : GetLatestForecast(p)
    \/ \E p \in Tasks : GetMeasurements(p)
    \/ \E p \in Tasks : CreateForecast(p)
    \/ \E p \in Tasks : GetForecast(p)
    \/ Tick

Spec == Init /\ [][Next]_vars

\* one generate_forecast call on its own, the service idle
EngineStart == EngineInit /\ ServiceOff /\ ManagerInit /\ OptOff

EngineSpec == EngineStart /\ [][EngineNext]_vars

\* the model manager under load, train and performance requests
ManagerStart ==
    /\ now = Epoch
    /\ core_impl = "Mock"
    /\ store_impl = "Mock"
    /\ meas_impl \in {"Mock", "Gateway"}
    /\ forecasts = <<>>
    /\ read_forecasts = <<>>
    /\ next_id = 1
    /\ model_versions = <<>>
    /\ task = [p \in Tasks |-> IdleTask]
    /\ EngineOff
    /\ ManagerInit
    /\ OptOff

ManagerSpec == ManagerStart /\ [][ManagerNext]_vars

\* the OptimizationEngine on its own: it keeps no state between calls
OptStart == ServiceOff /\ EngineOff /\ ManagerInit /\ OptOff

OptSpec == OptStart /\ [][OptNext]_vars

\* forecast requests while models are trained and loaded, wired as in
\* app/main.py
VersionStart == ServiceOff /\ EngineOff /\ ManagerInit /\ OptOff

\* the request tasks that run beside the trainings
VersionTasks == {"t1"}

VersionNext ==
    \/ \E p \in VersionTasks : StartRequest(p)
    \/ \E p \in VersionTasks : GetBuilding(p)
    \/ \E p \in VersionTasks : GetLatestForecast(p)
    \/ \E p \in VersionTasks : GetMeasurements(p)
    \/ \E p \in VersionTasks : CreateForecast(p)
    \/ \E r \in Trainers : StartTraining(r)
    \/ \E r \in Trainers : FinishTraining(r)
    \/ LoadModel

VersionSpec == VersionStart /\ [][VersionNext]_vars

\* the model manager on its own, called with ids that may hold "_"
IsolationStart == ServiceOff /\ EngineOff /\ ManagerInit /\ OptOff

IsolationSpec == IsolationStart /\ [][IsolationNext]_vars

\* requests for recommendations beside a request for a forecast
CallerTasks == Tasks \ {InnerTask}

OptimizationNext ==
    \/ StartOptimization
    \/ OptimizationLatest
    \/ OptimizationMeasurements
    \/ \E p \in CallerTasks : StartRequest(p)
    \/ \E p \in Tasks : GetBuilding(p)
    \/ \E p \in Tasks : GetLatestForecast(p)
    \/ \E p \in Tasks : GetMeasurements(p)
    \/ \E p \in Tasks : CreateForecast(p)
    \/ Tick

OptimizationSpec == Init /\ [][OptimizationNext]_vars

(* ----------------------- properties of the engine ---------------------- *)

\* the series generate_forecast returned
Series == e_out.values

\* the label of the last row of the resampled frame: the hour the last
\* measurement of the answer lies in
LastObserved == Hours(HourIdx(e_in.hist.last))

\* C4: for every horizon string for which generate_forecast returns a series,
\* the series has exactly as many points as the hours-ahead count
\* _parse_horizon returned for that string, for both prediction strategies.
C4_LengthIsHoursAhead ==
    e_pc = "returned" => Len(Series) = e_hours.hours

\* C5: every series generate_forecast produces starts one hour after the last
\* observed (resampled) timestamp, advances exactly one hour a point, and has
\* every value >= 0 and every confidence in [0, 1].
C5_SeriesInvariant ==
    e_pc = "returned" =>
        /\ Len(Series) >= 1 => Series[1].timestamp = LastObserved + Hours(1)
        /\ \A k \in 1..(Len(Series) - 1) :
              Series[k + 1].timestamp = Series[k].timestamp + Hours(1)
        /\ \A k \in 1..Len(Series) :
              /\ Series[k].value >= 0
              /\ 0 <= Series[k].confidence /\ Series[k].confidence <= 1000

\* an LSTM series of several points, from an answer whose last measurement is
\* not on the hour, in which max(0, .) replaced a negative prediction
C5_Witness ==
    /\ e_pc = "returned"
    /\ e_out.model_used = "LSTM"
    /\ Len(Series) >= 2
    /\ e_in.hist.last # LastObserved
    /\ e_in.noise = "alternate"
    /\ \E k \in 1..Len(Series) : Series[k].value = 0
    /\ \E k \in 1..Len(Series) : Series[k].value > 0

\* C6: for both prediction strategies and every hours-ahead count >= 1, the
\* confidence of point i+1 is never greater than the confidence of point i.
C6_ConfidenceNonIncreasing ==
    (e_pc = "returned" /\ e_hours.hours >= 1) =>
        \A k \in 1..(Len(Series) - 1) :
            Series[k + 1].confidence <= Series[k].confidence

\* an LSTM series in which the confidence falls from one point to the next and
\* stays the same between two others (the rounding absorbs the decay)
C6_Witness ==
    /\ e_pc = "returned"
    /\ e_out.model_used = "LSTM"
    /\ \E k \in 1..(Len(Series) - 1) : Series[k + 1].confidence < Series[k].confidence
    /\ \E k \in 1..(Len(Series) - 1) : Series[k + 1].confidence = Series[k].confidence

\* C7: horizon parsing is total: _parse_horizon returns n for an integer n
\* followed by H, 24*n for an integer n followed by D, and 24 for every other
\* string; it never ends in an error.
C7_ParseHorizonTotal ==
    e_pc # "ready" =>
        LET h == Upper(e_horizon)
            n == PyInt(DropLast(h))
        IN  /\ e_hours.ok
            /\ e_hours.hours = IF EndsWith(h, "H") /\ n.ok THEN n.val
                               ELSE IF EndsWith(h, "D") /\ n.ok THEN 24 * n.val
                               ELSE 24

(* ----------------------- properties of the service --------------------- *)

\* the request of task p has come back with a result
Succeeded(p) == task[p].pc \in {"done", "looked_up"}

\* the task called the collaborator (whether or not the call succeeded)
Called(p, call) == \E k \in 1..Len(task[p].calls) : task[p].calls[k] = call

\* step 2 of task p has read a record back from the forecast store
ReadBack(p) == Called(p, "get_latest_forecast") /\ task[p].existing # NoForecast

\* task p answered with the record it read, and neither computed nor stored
Reused(p) ==
    /\ Succeeded(p)
    /\ task[p].result.forecast_id = task[p].existing.id
    /\ ~Called(p, "generate_forecast")
    /\ ~Called(p, "create_forecast")

\* C1 as stated: once a request for (building, type, horizon) has succeeded and
\* its record is the latest the store returns for the triple, every later
\* request for the triple that starts less than 1 hour after the record's
\* issuedAt returns the same forecast id, calls no generate_forecast and
\* performs no create.
C1_ReuseWhenStartedWithinHour ==
    \A p \in Tasks :
        ( /\ ReadBack(p)
          /\ task[p].existing.id \in task[p].seen
          /\ task[p].started_at - task[p].existing.issued_at < Hours(1) )
        => Reused(p)

\* C1, amended: ... every later request for the triple whose age check (the
\* clock read that follows the store's answer) happens less than 1 hour after
\* the record's issuedAt returns the same forecast id, calls no
\* generate_forecast and performs no create.
C1_ReuseWhenCheckedWithinHour ==
    \A p \in Tasks :
        ( /\ ReadBack(p)
          /\ task[p].checked_at - task[p].existing.issued_at < Hours(1) )
        => /\ Succeeded(p)
           /\ task[p].result.forecast_id = task[p].existing.id
           /\ ~Called(p, "generate_forecast")
           /\ ~Called(p, "create_forecast")

\* one request stored a record and a later one, started after the clock had
\* moved on, was answered with that record's id
C1_Witness ==
    \E p, q \in Tasks :
        /\ p # q
        /\ Succeeded(p) /\ Called(p, "create_forecast")
        /\ ReadBack(q) /\ Succeeded(q)
        /\ task[q].existing.id = task[p].result.forecast_id
        /\ task[q].result.forecast_id = task[p].result.forecast_id
        /\ task[q].started_at > task[q].existing.issued_at
        /\ task[q].checked_at - task[q].existing.issued_at < Hours(1)

\* C2: wired as in app/main.py (everything from MockDAC), every forecast id a
\* successful request_forecast returned is retrievable through get_forecast,
\* whose result carries that id and the forecast type that was requested.
C2_ReturnedIdRetrievable ==
    \A p \in Tasks :
        ( /\ core_impl = "Mock" /\ store_impl = "Mock" /\ meas_impl = "Mock"
          /\ task[p].pc = "looked_up" )
        => /\ task[p].lookup # NoResult
           /\ task[p].lookup.forecast_id = task[p].result.forecast_id
           /\ task[p].lookup.forecast_type = task[p].req.forecast_type

\* C3: whenever the measurement source returns fewer than 168 points,
\* request_forecast ends in an error, returns no result and performs no create.
C3_InsufficientDataNoWrite ==
    \A p \in Tasks :
        (task[p].meas_n >= 0 /\ task[p].meas_n < 168)
        => /\ task[p].pc = "failed"
           /\ task[p].error # "none"
           /\ task[p].result = NoResult
           /\ ~Called(p, "create_forecast")

\* a request failed on an answer of 167 points while the store stayed as the
\* request had found it
C3_Witness ==
    \E p \in Tasks :
        /\ task[p].meas_n = 167
        /\ task[p].pc = "failed"
        /\ task[p].raised = [kind |-> "InsufficientDataError", origin |-> "engine"]
        /\ {forecasts[k].id : k \in 1..Len(forecasts)} = task[p].seen

\* C8: for every horizon string for which request_forecast generates and
\* stores a new forecast, validFrom equals generatedAt and validTo minus
\* validFrom equals the hours-ahead count the engine's horizon parsing yields
\* for that string.
C8_ValidityMatchesHorizon ==
    \A p \in Tasks :
        (Succeeded(p) /\ Called(p, "create_forecast"))
        => /\ task[p].result.valid_from = task[p].result.generated_at
           /\ task[p].result.valid_to - task[p].result.valid_from
                 = Hours(parse_horizon(task[p].req.horizon).hours)

\* C9: when the metadata source returns no building for the requested id,
\* request_forecast fails with the validation error (ValueError) before any
\* forecast-store read, measurement fetch, engine computation or store write.
C9_UnknownBuildingFailsFirst ==
    \A p \in Tasks :
        (core_impl = "Gateway" /\ Called(p, "get_building"))
        => /\ task[p].pc = "failed"
           /\ task[p].error = "ValueError"
           /\ task[p].calls = <<"get_building">>
           /\ task[p].result = NoResult

\* the gateway's metadata stub answered None and the request has failed
C9_Witness ==
    \E p \in Tasks :
        /\ core_impl = "Gateway"
        /\ task[p].pc = "failed"
        /\ task[p].raised = [kind |-> "ValueError", origin |-> "service"]
        /\ task[p].calls = <<"get_building">>

CallCount(p, call) ==
    Cardinality({k \in 1..Len(task[p].calls) : task[p].calls[k] = call})

\* the engine of task p produced a forecast that validate_results rejected
RejectedByValidation(p) ==
    /\ task[p].gen.model_used # "none"
    /\ ~task[p].gen.is_valid

C12_Accuracy24H ==
    \A p \in Tasks :
        ( /\ Succeeded(p) /\ Called(p, "create_forecast")
          /\ task[p].req.horizon = <<"2", "4", "H">> )
        => task[p].result.accuracy >= 5100

(* -------------------- properties of the model manager ------------------ *)

\* the version the registry holds for the pair, 1.4.2 when it holds none
Registered(mv, building_id, model_type) ==
    IF <<building_id, model_type>> \in DOMAIN mv
    THEN mv[<<building_id, model_type>>] ELSE <<1, 4, 2>>

\* a training of the pair has completed
Trained(building_id, model_type) ==
    \E r \in Trainers : /\ train[r].pc = "done"
                        /\ train[r].building_id = building_id
                        /\ train[r].model_type = model_type

\* the step is a call on the model manager
ManagerCall == last_op'.flip # last_op.flip

\* C13: each trainModel call returns and registers a version whose patch
\* component is exactly one greater than the version current for the key
\* before the call, major and minor unchanged (1.4.2, 1.4.3, 1.4.4, ...),
\* whether or not loadModel was called in between.
C13_TrainBumpsPatch ==
    [][ \A r \in Trainers :
          (train[r].pc # "done" /\ train'[r].pc = "done") =>
              LET b      == train'[r].building_id
                  mt     == train'[r].model_type
                  before == Registered(model_versions, b, mt)
                  v      == train'[r].result.model_version
              IN  /\ v = <<before[1], before[2], before[3] + 1>>
                  /\ Registered(model_versions', b, mt) = v
                  /\ v[1] = 1 /\ v[2] = 4 /\ v[3] >= 3 ]_vars

\* two trainings of one pair returned 1.4.3 and 1.4.4, and a loadModel that
\* followed found the trained handle and left 1.4.4 registered
C13_Witness ==
    \E p, q \in Trainers :
        /\ train[p].pc = "done" /\ train[q].pc = "done"
        /\ train[p].building_id = train[q].building_id
        /\ train[p].model_type = train[q].model_type
        /\ train[p].result.model_version = <<1, 4, 3>>
        /\ train[q].result.model_version = <<1, 4, 4>>
        /\ last_op.op = "load" /\ last_op.model_type = train[q].model_type
        /\ Registered(model_versions, train[q].building_id, train[q].model_type)
              = <<1, 4, 4>>

\* C14: loadModel is idempotent: when a handle for the key is already cached,
\* loadModel returns that handle and leaves the handle cache, the version
\* registry and the metrics history unchanged; it never resets a trained
\* version to the default.
C14_LoadIdempotent ==
    [][ ( /\ ManagerCall
          /\ last_op'.op = "load"
          /\ cache_key(last_op'.building_id, last_op'.model_type) \in DOMAIN models )
        => /\ last_op'.result
                 = models[cache_key(last_op'.building_id, last_op'.model_type)]
           /\ models' = models
           /\ model_versions' = model_versions
           /\ performance_metrics' = performance_metrics ]_vars

\* a loadModel answered with a trained handle of version 1.4.3, which is still
\* the registered version
C14_Witness ==
    /\ last_op.op = "load"
    /\ last_op.hit
    /\ last_op.result.status = "trained"
    /\ last_op.result.version = <<1, 4, 3>>
    /\ Registered(model_versions, last_op.building_id, last_op.model_type)
          = <<1, 4, 3>>

\* C15: after any sequence of loadModel and trainModel calls,
\* getModelPerformance returns the not-found sentinel (and the service raises
\* ModelNotTrained) exactly when no trainModel for the pair has completed; for
\* a never-trained pair it never returns a record with zero accuracy.
C15_NotFoundIffNeverTrained ==
    last_op.op = "performance" =>
        /\ (last_op.result.raised = "ModelNotTrainedError")
              <=> ~Trained(last_op.building_id, last_op.model_type)
        /\ (last_op.result.value.status = "not_found")
              <=> ~Trained(last_op.building_id, last_op.model_type)

\* C16: whenever get_model_info returns a handle with version v for a key, the
\* metrics it returns with it are the metrics record written for exactly that
\* key and version v, never a missing record or the record of another version.
C16_InfoMetricsMatchVersion ==
    (last_op.op = "info" /\ last_op.result # NoModel) =>
        LET k == metrics_key(last_op.building_id, last_op.model_type,
                             last_op.result.version)
        IN  /\ k \in DOMAIN performance_metrics
            /\ last_op.result.metrics = performance_metrics[k]

\* C17: for any interleaving of k concurrent train_model requests for one
\* (building, modelType), no version update is lost: the calls return pairwise
\* distinct versions and, once all have completed, the registered patch
\* component is the one before the first call plus k.
C17_NoLostVersion ==
    /\ \A p, q \in Trainers :
          ( /\ p # q
            /\ train[p].pc = "done" /\ train[q].pc = "done"
            /\ train[p].building_id = train[q].building_id
            /\ train[p].model_type = train[q].model_type )
          => train[p].result.model_version # train[q].result.model_version
    /\ \A b \in Buildings, mt \in TrainModelTypes :
          LET mine == {r \in Trainers : /\ train[r].building_id = b
                                        /\ train[r].model_type = mt}
          IN  (\A r \in mine : train[r].pc \in {"done", "failed"})
              => Registered(model_versions, b, mt)[3]
                    = 2 + Cardinality({r \in mine : train[r].pc = "done"})

\* two trainings of one pair that both began at version 1.4.2, so that each
\* awaited its measurements while the other was in flight, have completed
C17_Witness ==
    \E p, q \in Trainers :
        /\ p # q
        /\ train[p].pc = "done" /\ train[q].pc = "done"
        /\ train[p].building_id = train[q].building_id
        /\ train[p].model_type = train[q].model_type
        /\ train[p].version_at_start = <<1, 4, 2>>
        /\ train[q].version_at_start = <<1, 4, 2>>
        /\ Registered(model_versions, train[p].building_id, train[p].model_type)
              = <<1, 4, 4>>

\* C18: train_model fails with a validation error when endDate - startDate is
\* less than 30 days, without fetching measurements, and with InsufficientData
\* when the span is at least 30 days but fewer than 720 measurements are
\* returned; in both cases the handle cache, the version registry and the
\* metrics history are left as they were.
C18_TrainPreconditions ==
    /\ [](\A r \in Trainers :
            /\ (train[r].pc # "idle" /\ train[r].span < Hours(24 * 30))
                  => /\ train[r].pc = "failed"
                     /\ train[r].error = "ValueError"
                     /\ train[r].points = 0 - 1
            /\ ( /\ train[r].span >= Hours(24 * 30)
                 /\ train[r].points >= 0 /\ train[r].points < 720 )
                  => /\ train[r].pc = "failed"
                     /\ train[r].error = "InsufficientDataError")
    /\ [][ \A r \in Trainers :
             (train[r].pc # "failed" /\ train'[r].pc = "failed")
             => /\ models' = models
                /\ model_versions' = model_versions
                /\ performance_metrics' = performance_metrics ]_vars

\* one call was refused for its span before any fetch, another for the 719
\* measurements it was given
C18_Witness ==
    \E p, q \in Trainers :
        /\ train[p].pc = "failed" /\ train[p].error = "ValueError"
        /\ train[p].points = 0 - 1
        /\ train[p].span = Hours(24 * 30) - 1
        /\ train[q].pc = "failed" /\ train[q].error = "InsufficientDataError"
        /\ train[q].points = 719

(* ----------------- properties of the OptimizationEngine ---------------- *)

\* the highest value, in W, among the points of a window whose hour lies in
\* [09:00, 21:00); -1 when the window has none
PeakBandMax(forecast_values) == LET band == {i \in 1..Len(forecast_values) : forecast_values[i].hour \in 9..20} IN IF band = {} THEN 0 - 1 ELSE SetMax({forecast_values[i].value : i \in band})

\* the load-shifting analysis has just answered for a window whose peak-band
\* maximum is w
ShiftedAt(w) == opt.op = "analyze_load_shifting" /\ PeakBandMax(opt.forecast_values) = w

\* C19 as stated: for a window whose maximum among the points in
\* [09:00, 21:00) is 90 kW the load-shifting analysis returns exactly one
\* recommendation, of priority 1, with estimated savings 0.20 x 90 x 0.60 =
\* 10.80 zloty
C19_OneRecommendationAt90kW ==
    ShiftedAt(90000) =>
        /\ Len(opt.recommendations) = 1
        /\ opt.recommendations[1].priority = 1
        /\ opt.recommendations[1].estimated_savings = 10800

\* C19 as amended: for a peak-band maximum of 90 kW the analysis returns no
\* recommendation, 10.80 zloty being under the minimum savings of 20; for any
\* maximum over 80 kW it returns one recommendation, of priority 1 and with
\* 0.20 x maximum x 0.60 zloty rounded to the grosz, exactly when that amount
\* is at least 20 zloty, and none otherwise
C19_RecommendationOnlyFromThreshold ==
    /\ ShiftedAt(90000) => opt.recommendations = <<>>
    /\ \A w \in PointValues :
          (ShiftedAt(w) /\ w > 80000) =>
              IF 12 * w >= 2000000
              THEN /\ Len(opt.recommendations) = 1
                   /\ opt.recommendations[1].priority = 1
                   /\ opt.recommendations[1].estimated_savings % 10 = 0
                   /\ 100 * opt.recommendations[1].estimated_savings - 12 * w \in (0 - 500)..500
              ELSE opt.recommendations = <<>>

\* the analysis was given a window with 90 kW as its highest peak-band value
\* and returned nothing
C19_Witness == ShiftedAt(90000) /\ opt.recommendations = <<>>

\* calculate_savings has just answered
Calculated == opt.op = "calculate_savings"

\* r is x rounded to two decimals, both in thousandths of a zloty
RoundedTo2(r, x) == r % 10 = 0 /\ 2 * (r - x) \in (0 - 10)..10

\* C20 as stated: the daily total is the sum of the estimated savings, the
\* monthly total 30 times and the annual total 365 times the daily total; all
\* are zero for the empty list
C20_TotalsAreSumAndMultiples ==
    Calculated =>
        /\ opt.savings.total_daily = SumSavings(opt.recommendations)
        /\ opt.savings.total_monthly = 30 * opt.savings.total_daily
        /\ opt.savings.total_annual = 365 * opt.savings.total_daily

\* C20 as amended: the daily, monthly and annual totals are the sum of the
\* estimated savings, 30 times the sum and 365 times the sum, each rounded to
\* two decimals on its own; when every estimated savings is a whole number of
\* grosz these are the sum, 30 times and 365 times the daily total; the empty
\* list gives zeros, and one recommendation of 50 zloty gives 1500 and 18250
C20_TotalsAreRoundedSumAndMultiples ==
    Calculated =>
        LET recs  == opt.recommendations
            total == SumSavings(recs)
            s     == opt.savings
        IN  /\ RoundedTo2(s.total_daily, total)
            /\ RoundedTo2(s.total_monthly, 30 * total)
            /\ RoundedTo2(s.total_annual, 365 * total)
            /\ (\A i \in 1..Len(recs) : recs[i].estimated_savings % 10 = 0) =>
                   /\ s.total_daily = total
                   /\ s.total_monthly = 30 * s.total_daily
                   /\ s.total_annual = 365 * s.total_daily
            /\ recs = <<>> => (s.total_daily = 0 /\ s.total_monthly = 0 /\ s.total_annual = 0)
            /\ (Len(recs) = 1 /\ recs[1].estimated_savings = 50000) =>
                   (s.total_monthly = 1500000 /\ s.total_annual = 18250000)

\* calculate_savings answered for one recommendation of 50 zloty
C20_Witness ==
    /\ Calculated
    /\ Len(opt.recommendations) = 1
    /\ opt.recommendations[1].estimated_savings = 50000
    /\ opt.savings.total_monthly = 1500000
    /\ opt.savings.total_annual = 18250000

(* ------------------------- strategy selection -------------------------- *)

\* C23: with preference "auto" generate_forecast runs and reports LSTM exactly
\* when the parsed horizon is over 24 hours and XGBoost otherwise; with an
\* explicit preference the strategy run and the label returned are both the
\* preference given.
C23_StrategyFollowsPreference ==
    e_pc = "returned" =>
        IF e_in.model_type = "auto"
        THEN /\ e_out.strategy = e_out.model_used
             /\ e_out.model_used = IF e_hours.hours > 24 THEN "LSTM" ELSE "XGBoost"
        ELSE /\ e_out.strategy = e_in.model_type
             /\ e_out.model_used = e_in.model_type

\* C25: the load-shifting analysis returns at most one recommendation, and
\* returns one exactly when the highest value among the points with hour in
\* [09:00, 21:00) is over 80 kW and a fifth of it priced at 0.60 zloty per kWh
\* is at least 20 zloty; it returns none when the window has no point in that
\* band or none of them is over 80 kW.
C25_LoadShiftEmitsIffWorthIt ==
    opt.op = "analyze_load_shifting" =>
        LET top == PeakBandMax(opt.forecast_values)
        IN  /\ Len(opt.recommendations) <= 1
            /\ Len(opt.recommendations) = 1 <=> (top > 80000 /\ 2 * top * 6 >= 20 * 100000)
            /\ (top = 0 - 1 \/ top <= 80000) => opt.recommendations = <<>>

\* the analysis returned a recommendation for a window whose other points lie
\* outside the peak band or under the peak found
C25_Witness ==
    /\ opt.op = "analyze_load_shifting"
    /\ Len(opt.forecast_values) >= 2
    /\ Len(opt.recommendations) = 1
    /\ opt.forecast_values[opt.recommendations[1].time_window.start].value = PeakBandMax(opt.forecast_values)
    /\ \E i \in 1..Len(opt.forecast_values) : opt.forecast_values[i].hour \notin 9..20

\* the points of a window at night (22:00-06:00) or on a Saturday or Sunday
LowOccupancy(forecast_values) == {i \in 1..Len(forecast_values) : forecast_values[i].hour \in {22, 23, 0, 1, 2, 3, 4, 5} \/ forecast_values[i].weekday \in {5, 6}}

\* C26: the temperature analysis returns at most one recommendation; the one
\* it returns has priority 3 and a time window starting at the first point of
\* the window that lies in 22:00-06:00 or on a Saturday or Sunday; it returns
\* none when the window has no such point or when 10% of 45% of the baseline
\* at 0.45 zloty per kWh is under 20 zloty.
C26_TemperatureAtFirstLowOccupancy ==
    opt.op = "analyze_temperature_optimization" =>
        LET low == LowOccupancy(opt.forecast_values)
        IN  /\ Len(opt.recommendations) <= 1
            /\ Len(opt.recommendations) = 1 =>
                  /\ opt.recommendations[1].priority = 3
                  /\ low # {}
                  /\ opt.recommendations[1].time_window.start = SetMin(low)
            /\ low = {} => opt.recommendations = <<>>
            /\ opt.current_consumption * 2025 < 20 * 100000 => opt.recommendations = <<>>

\* the analysis returned a recommendation for a window with several
\* low-occupancy points, the first of them not the first point of the window
C26_Witness ==
    /\ opt.op = "analyze_temperature_optimization"
    /\ Len(opt.recommendations) = 1
    /\ Cardinality(LowOccupancy(opt.forecast_values)) >= 2
    /\ opt.recommendations[1].time_window.start > 1

\* how often r stands in the list
Occurrences(list, r) == Cardinality({i \in 1..Len(list) : list[i] = r})

\* C21: the list generate_recommendations returns holds exactly the
\* recommendations the load-shifting, peak-reduction and temperature analyses
\* returned, each as often as it was returned; along the list the priority
\* never decreases and, among equal priorities, the estimated savings never
\* increase.
C21_AllRecommendationsSorted ==
    (opt.op = "generate_recommendations" /\ opt.raised = "none") =>
        LET emitted == opt.load_shift_recs \o opt.peak_reduction_recs \o opt.temp_optimization_recs
            recs    == opt.recommendations
        IN  /\ Len(recs) = Len(emitted)
            /\ \A i \in 1..Len(emitted) : Occurrences(recs, emitted[i]) = Occurrences(emitted, emitted[i])
            /\ \A i, j \in 1..Len(recs) :
                  i < j => /\ recs[i].priority <= recs[j].priority
                           /\ recs[i].priority = recs[j].priority
                                 => recs[i].estimated_savings >= recs[j].estimated_savings

\* all three analyses returned a recommendation, the one of priority 1 with
\* smaller savings than the one of priority 2
C21_Witness ==
    /\ opt.op = "generate_recommendations"
    /\ opt.raised = "none"
    /\ Len(opt.recommendations) = 3
    /\ opt.recommendations[1].estimated_savings < opt.recommendations[2].estimated_savings

(* --------------------- the DataAccessGateway store --------------------- *)

\* task p was given its forecast id by create_forecast
Created(p) == Succeeded(p) /\ Len(task[p].calls) > 0 /\ task[p].calls[Len(task[p].calls)] = "create_forecast"

\* ids a caller may ask for: ObjectIds, and a string that is no ObjectId
LookupIds == {[prefix |-> "oid", n |-> k] : k \in 1..3} \cup {[prefix |-> "forecast_", n |-> 1]}

\* C22: in the DataAccessGateway store every id create_forecast returned is
\* retrievable through get_forecast_by_id from then on, as a record with that
\* id and the type, horizon and scope.buildingId given at creation; an id
\* create_forecast never returned gives None.
C22_GatewayIdRetrievable ==
    store_impl = "Gateway" =>
        /\ \A p \in Tasks :
              Created(p) =>
                  LET d == get_forecast_by_id(store_impl, forecasts, read_forecasts, task[p].result.forecast_id)
                  IN  /\ d # NoForecast
                      /\ d.id = task[p].result.forecast_id
                      /\ d.type = task[p].req.forecast_type
                      /\ d.horizon = task[p].req.horizon
                      /\ d.building_id = task[p].req.building_id
        /\ \A id \in LookupIds :
              (\A p \in Tasks : Created(p) => task[p].result.forecast_id # id)
                  => get_forecast_by_id(store_impl, forecasts, read_forecasts, id) = NoForecast

\* two requests stored a forecast each in the gateway's collection, for
\* different horizons
C22_Witness ==
    /\ store_impl = "Gateway"
    /\ \E p, q \in Tasks :
          /\ Created(p) /\ Created(q)
          /\ task[p].result.forecast_id # task[q].result.forecast_id
          /\ task[p].req.horizon # task[q].req.horizon

(* ------------------------- concurrent requests ------------------------- *)

\* C28: in a store whose get_latest_forecast answers with the latest record
\* created, concurrent request_forecast tasks for the same building, type and
\* horizon, started when the store held no record at all (so none under one
\* hour old), make at most one create_forecast and return the same forecast id.
C28_ConcurrentRequestsShareForecast ==
    store_impl = "Gateway" =>
        \A p, q \in Tasks :
            ( /\ p # q
              /\ task[p].req = task[q].req
              /\ task[p].seen = {} /\ task[q].seen = {}
              /\ Succeeded(p) /\ Succeeded(q) )
            => /\ ~(Created(p) /\ Created(q))
               /\ task[p].result.forecast_id = task[q].result.forecast_id

(* --------------------------- cached answers ---------------------------- *)

\* C29: a request_forecast answered from the cache returns the accuracy, model
\* label, model version, series and validity window that the request which
\* generated and stored that forecast returned.
C29_CachedAnswerEqualsOriginal ==
    \A p, q \in Tasks :
        ( /\ Created(p)
          /\ Reused(q)
          /\ task[q].result.forecast_id = task[p].result.forecast_id )
        => /\ task[q].result.accuracy = task[p].result.accuracy
           /\ task[q].result.model_used = task[p].result.model_used
           /\ task[q].result.model_version = task[p].result.model_version
           /\ task[q].result.values = task[p].result.values
           /\ task[q].result.valid_from = task[p].result.valid_from
           /\ task[q].result.valid_to = task[p].result.valid_to

(* ---------------------- the version of a forecast ---------------------- *)

\* the trainings of (building, model type) that have returned
TrainedTimes(building_id, model_type) == Cardinality({r \in Trainers : train[r].pc = "done" /\ train[r].building_id = building_id /\ train[r].model_type = model_type})

\* C30: the model version stored with a newly generated forecast and returned
\* for it is the version the registry holds for (building, model used) when
\* the request reads it, 1.4.2 when the pair has no entry, so patch 2 + k after
\* k successful train_model calls for the pair; no step of request_forecast
\* changes the handle cache, the version registry or the metrics.
C30_ForecastVersionFromRegistry ==
    /\ [](\A p \in Tasks :
            Created(p) =>
                /\ task[p].result.model_version = task[p].model_version
                /\ \E r \in Records(forecasts) :
                      r.id = task[p].result.forecast_id /\ r.ver = task[p].result.model_version)
    /\ [][ \A p \in Tasks :
             /\ (task[p].pc = "get_measurements" /\ task'[p].pc = "create_forecast") =>
                   LET b  == task[p].req.building_id
                       mu == task'[p].gen.model_used
                   IN  /\ task'[p].model_version = <<1, 4, 2 + TrainedTimes(b, mu)>>
                       /\ <<b, mu>> \in DOMAIN model_versions
                             => task'[p].model_version = model_versions[<<b, mu>>]
                       /\ <<b, mu>> \notin DOMAIN model_versions
                             => task'[p].model_version = <<1, 4, 2>>
             /\ task'[p] # task[p] =>
                   /\ models' = models
                   /\ model_versions' = model_versions
                   /\ performance_metrics' = performance_metrics ]_vars

\* a forecast generated after two trainings of its model reports 1.4.4
C30_Witness ==
    \E p \in Tasks :
        /\ Created(p)
        /\ TrainedTimes(task[p].req.building_id, task[p].result.model_used) = 2
        /\ task[p].result.model_version = <<1, 4, 4>>

\* the pairs of ids the manager may be called for
Pairs == AnyBuildings \X AnyModelTypes

\* C27: model state is isolated per (building, model type), for any string
\* ids: a load_model or train_model call for one pair changes neither the
\* registered version nor what get_model_info and get_model_performance
\* report for another pair, and a cached handle's version is always the
\* registry entry of its own pair.
C27_PairsIsolated ==
    /\ [](\A pr \in Pairs :
            cache_key(pr[1], pr[2]) \in DOMAIN models =>
                /\ pr \in DOMAIN model_versions
                /\ models[cache_key(pr[1], pr[2])].version = model_versions[pr])
    /\ [][ (last_op'.flip # last_op.flip /\ last_op'.op \in {"load", "train"}) =>
              \A pr \in Pairs :
                  pr # <<last_op'.building_id, last_op'.model_type>> =>
                      /\ (pr \in DOMAIN model_versions') = (pr \in DOMAIN model_versions)
                      /\ version_of(model_versions', pr[1], pr[2])
                            = version_of(model_versions, pr[1], pr[2])
                      /\ get_model_info(models', performance_metrics', pr[1], pr[2])
                            = get_model_info(models, performance_metrics, pr[1], pr[2])
                      /\ get_model_performance(models', performance_metrics', pr[1], pr[2])
                            = get_model_performance(models, performance_metrics, pr[1], pr[2]) ]_vars

\* the get_optimization call is over: it returned or raised
OptimizationOver == optimization.pc \in {"done", "failed"}

\* the cache check inside the request_forecast that get_optimization called
\* found a forecast under one hour old
InnerCheckFresh ==
    /\ task[InnerTask].existing # NoForecast
    /\ task[InnerTask].checked_at - task[InnerTask].existing.issued_at < Hours(1)

\* the id in the result is the id of the forecast whose series was given to
\* the OptimizationEngine, and the store holds that series under that id
ResultNamesForecastUsed ==
    optimization.pc = "done" =>
        /\ optimization.forecast_id = optimization.latest.forecast_id
        /\ optimization.forecast_values = forecast_points(optimization.latest.values)
        /\ \E r \in Records(forecasts) :
              /\ r.id = optimization.forecast_id
              /\ forecast_points(r.series_item) = optimization.forecast_values

\* C24 as stated: get_optimization creates a forecast (one store create,
\* through request_forecast) exactly when the store has no latest 24H
\* energy_demand forecast for the building and writes nothing otherwise; the
\* forecast id in the result is the id of the forecast whose series was given
\* to the OptimizationEngine.
C24_CreatesIffNoLatest ==
    /\ optimization.pc = "done" =>
          (Created(InnerTask) <=> optimization.lookup = "none")
    /\ ResultNamesForecastUsed

\* C24 amended: get_optimization makes one store create exactly when its
\* lookup finds no latest 24H energy_demand forecast, the cache check inside
\* request_forecast finds none under one hour old, and request_forecast
\* returns; otherwise it writes nothing (request_forecast is not called when
\* the lookup finds a forecast, and only create_forecast steps write, one
\* record each); the forecast id in the result is the id of the forecast whose
\* series was given to the OptimizationEngine.
C24_CreatesIffBothLookupsMiss ==
    /\ [](/\ OptimizationOver =>
                (Created(InnerTask) <=> /\ optimization.lookup = "none"
                                        /\ ~InnerCheckFresh
                                        /\ task[InnerTask].pc = "done")
          /\ optimization.lookup \in {"pending", "forecast", "raised"}
                => task[InnerTask].pc = "idle"
          /\ ResultNamesForecastUsed)
    /\ [][ /\ forecasts' # forecasts =>
                /\ \E p \in Tasks : task[p].pc = "create_forecast" /\ task'[p].pc = "done"
                /\ Len(forecasts') = Len(forecasts) + 1
           /\ optimization' # optimization =>
                \/ forecasts' = forecasts
                \/ task[InnerTask].pc = "create_forecast" ]_vars

\* a call returned whose lookup found nothing and whose request_forecast
\* answered from a forecast another request had stored meanwhile
C24_Witness ==
    /\ optimization.pc = "done"
    /\ optimization.lookup = "none"
    /\ ~Created(InnerTask)
    /\ InnerCheckFresh
    /\ Len(optimization.forecast_values) = 24
    /\ \E p \in CallerTasks : Created(p) /\ task[p].result.forecast_id = optimization.forecast_id

====
